---- MODULE Spec2Model ----
(***************************************************************************)
(* Verification model of the RentScan BLE centrals.                        *)
(*                                                                         *)
(*   Spec         the standalone central, src/ble_central/src/main.c       *)
(*   SpecGateway  the gateway central,                                     *)
(*                src/RentScan/gateway_device/src/ble_central.c            *)
(*                                                                         *)
(* Each central is a record of its C statics together with the state of    *)
(* the BLE stack it talks to (scanning, connection objects, the outstanding*)
(* discovery request, the active subscription).  The BLE stack is not part *)
(* of the repository: its calls are modelled by their contract, and their  *)
(* return codes are inputs drawn with \E.                                  *)
(*                                                                         *)
(* A handler is a chain of blocks.  A block is the code between two        *)
(* k_sleep calls; it maps a configuration [s, f] (program state, frame) to *)
(* the next one.  Callbacks and work items run a chain to its end in one   *)
(* step (RunAtomic); the supervisory main thread gives up the processor at *)
(* every k_sleep, so it runs one stretch between two sleeps per step       *)
(* (RunToYield) and callbacks may run in between.                          *)
(***************************************************************************)
EXTENDS Integers, Sequences, FiniteSets, TLC

(* ------------------------------------------------------------------ *)
(* Bounds of the model                                                  *)
(* ------------------------------------------------------------------ *)
\* connection objects of the stack's pool
MaxConn == 3
\* the error counters saturate here (every comparison in the code is below)
ErrCap == 6
\* total_retry_count saturates here (the code compares it with 4 and 10)
TotalCap == 11
\* Spec: advertisement reports of the RentScan device in one run, and
\* steps in which the environment makes something fail
MaxAdv == 1
MaxFaults == 1
\* SpecEscalation: advertisement reports
EscAdv == 3
\* SpecWatchdog: advertisement reports, and how often the two minutes
\* without a connection run out
WdAdv == 1
WdTimeouts == 3
WdFaults == 1
GwAdv == 2
GwFaults == 1
GwLinks == 1
GwResets == 1
\* SpecLoopback: advertisement reports, failing steps, link losses, calls of
\* mock_ble_central_start_scan
LbAdv == 2
LbFaults == 1
LbLinks == 1
LbScans == 2
\* SpecRace: advertisement reports, failing steps, expiries of the two minutes
RaceAdv == 1
RaceFaults == 1
RaceTimeouts == 1
\* SpecCreate: connection attempts that succeed
CrConns == 1
\* SpecDuplicate: advertisement reports, failing steps
DupAdv == 2
DupFaults == 1
\* SpecRentalLogic: the uptime values, the notifications counted
MaxUptime == 2
MaxSends == 3
\* SpecDiscoverFail: advertisement reports, link losses, calls of
\* ble_central_reset
DfAdv == 5
DfLinks == 1
DfResets == 1
\* SpecGatewayApp: notifications delivered to the gateway
MsgInputs == 2
\* SpecGatewayService: calls of the rental functions
GsCalls == 3
RdCalls == 4

(* ------------------------------------------------------------------ *)
(* Program constants                                                    *)
(* ------------------------------------------------------------------ *)
NULL == 0
BT_ATT_FIRST_ATTRIBUTE_HANDLE == 1
BT_ATT_LAST_ATTRIBUTE_HANDLE == 65535
\* error_recovery: consecutive_errors >= 3
ER_RESET_THRESHOLD == 3
\* main: consecutive_errors >= 5 && emergency_reset_count < 2
MAIN_EMERGENCY_ERRORS == 5
MAX_EMERGENCY_RESETS == 2
\* start_scan: max_retries
SCAN_MAX_RETRIES == 5
\* discover_func: max_subscribe_retries
MAX_SUBSCRIBE_RETRIES == 5
\* complete_bt_reset: for (i = 0; i < 5; i++)
RESET_LOOP_TRIES == 5
\* device_found: retry_count >= 2, total_retry_count > 4, total_retry_count > 10
CREATE_RETRY_LIMIT == 2
TOTAL_RETRY_WINDOW_LIMIT == 4
TOTAL_RETRY_HARD_LIMIT == 10
\* gateway: GATEWAY_ERROR_RESET_THRESHOLD, start_scan max_retries
GATEWAY_ERROR_RESET_THRESHOLD == 5
\* rentscan_protocol.h
MAX_TAG_ID_LEN == 16
MAX_MSG_PAYLOAD == 128
CMD_RENTAL_START == 1
CMD_RENTAL_END == 2
CMD_STATUS_REQ == 3
CMD_STATUS_RESP == 4
STATUS_AVAILABLE == 0
STATUS_RENTED == 1
STATUS_EXPIRED == 2
RENTAL_STATUS_AVAILABLE == 0
RENTAL_STATUS_RENTED == 1
RENTAL_STATUS_MAINTENANCE == 2
RENTAL_STATUS_LOST == 3
MAX_RENTAL_ITEMS == 10
STORAGE_MAX_ITEMS == 10
EXAMPLE_TIME == 1651234567
\* gateway_service.c
BACKEND_SIM_STORAGE_SIZE == 16
\* rental_manager.c: MAX_ACTIVE_RENTALS
RM_MAX_ACTIVE_RENTALS == 10
\* gateway_service.c: MAX_ACTIVE_RENTALS
GS_MAX_ACTIVE_RENTALS == 8
GW_SCAN_MAX_RETRIES == 3

Conns == 1..MaxConn

Min(a, b) == IF a < b THEN a ELSE b

(* ------------------------------------------------------------------ *)
(* The peer's attribute table                                           *)
(* ------------------------------------------------------------------ *)
\* one attribute: a primary service (end_handle set), a characteristic
\* declaration (its value is at handle + 1) or a descriptor
Attr(h, k, u, e) == [handle |-> h, kind |-> k, uuid |-> u, end_handle |-> e]

\* service 0x10-0x20, RX value 0x12, TX value 0x15, CCC 0x16
PeerFull ==
    { Attr(1, "PRIMARY", "OTHER", 5),
      Attr(16, "PRIMARY", "NUS", 32),
      Attr(17, "CHARACTERISTIC", "RX", 0),
      Attr(20, "CHARACTERISTIC", "TX", 0),
      Attr(22, "DESCRIPTOR", "CCC", 0) }
\* the same service without a CCC descriptor
PeerNoCcc ==
    { Attr(1, "PRIMARY", "OTHER", 5),
      Attr(16, "PRIMARY", "NUS", 32),
      Attr(17, "CHARACTERISTIC", "RX", 0),
      Attr(20, "CHARACTERISTIC", "TX", 0) }
\* a peer that does not expose the service at all
PeerNoService ==
    { Attr(1, "PRIMARY", "OTHER", 5),
      Attr(2, "CHARACTERISTIC", "OTHER", 0) }

Peers == { PeerFull, PeerNoCcc, PeerNoService }

NoAttr == Attr(0, "NONE", "NONE", 0)

\* the attributes a discovery request (type, uuid, from..to) still has to
\* report: of the requested kind, in range, and, when the stack filters by
\* UUID, of the requested UUID
Matching(peer, filtering, type, uuid, from, to) ==
    { a \in peer : /\ a.kind = type
                   /\ a.handle >= from
                   /\ a.handle <= to
                   /\ (filtering /\ uuid # "NONE") => a.uuid = uuid }

\* the next attribute reported, NoAttr when the discovery is exhausted
NextAttr(peer, filtering, type, uuid, from, to) ==
    LET m == Matching(peer, filtering, type, uuid, from, to)
    IN  IF m = {} THEN NoAttr
        ELSE CHOOSE a \in m : \A b \in m : a.handle <= b.handle

(* ------------------------------------------------------------------ *)
(* Standalone central: state                                            *)
(* ------------------------------------------------------------------ *)
ZeroDiscoverParams ==
    [type |-> "PRIMARY", uuid |-> "NONE", start_handle |-> 0, end_handle |-> 0]
ZeroSubscribeParams == [value_handle |-> 0, ccc_handle |-> 0]
NoDisc == [conn |-> NULL, type |-> "PRIMARY", uuid |-> "NONE", next |-> 0, end |-> 0]
NoSub == [conn |-> NULL, value_handle |-> 0, ccc_handle |-> 0]
FreeConn == [st |-> "free", refs |-> 0]

VARIABLES
    sa,      \* the standalone central: its statics and its BLE stack
    mainf,   \* the frame of the standalone central's main thread
    gw,      \* the gateway central: its statics and its BLE stack
    lb,      \* the loopback central: its statics and its BLE stack
    app      \* the applications: rental logic, gateway service, rental manager

vars == <<sa, mainf, gw, lb, app>>

(* ------------------------------------------------------------------ *)
(* The BLE stack as the standalone central uses it                      *)
(*                                                                      *)
(* s.bt_on      the stack is enabled and ready                          *)
(* s.ready      a bt_ready callback is pending ("none" / "pending")     *)
(* s.scan_on   the controller is scanning                              *)
(* s.work       start_scan_work is scheduled                            *)
(* s.conn[c]    connection object c: st is "free", "connecting",        *)
(*              "connected", "cancelled" (create cancelled, connected   *)
(*              callback with an error pending) or "disconnecting"      *)
(*              (disconnected callback pending); refs counts the        *)
(*              references the application holds                        *)
(* s.disc       the outstanding discovery request (conn = NULL: none)   *)
(* s.sub        the active subscription (conn = NULL: none)             *)
(* s.calls      the stack calls made in the current step, in order; live *)
(*              tells whether, when the call was made, a connection was *)
(*              established or its connected callback still to come     *)
(* s.ub         a call was made on a NULL or already released reference *)
(* ------------------------------------------------------------------ *)
Live(s) ==
    \E c \in Conns : s.conn[c].st \in {"connecting", "cancelled", "connected"}

\* standalone central: every handle variable, the subscription parameters
\* and the discovery parameters are zero
Cleared(s) ==
    "nus_tx_ccc_handle" \in DOMAIN s =>
        /\ s.nus_rx_handle = 0 /\ s.nus_tx_handle = 0
        /\ s.nus_tx_ccc_handle = 0 /\ s.nus_service_end_handle = 0
        /\ s.current_service_start_handle = 0
        /\ s.nus_tx_subscribe_params = ZeroSubscribeParams
        /\ s.discover_params = ZeroDiscoverParams

\* the log entry of a call, with what held when it was made
Call(s, fn, op, a) ==
    [s EXCEPT !.calls = Append(@, [fn |-> fn, op |-> op, a |-> a,
                                   live |-> Live(s), clear |-> Cleared(s)])]

\* what bt_le_scan_start returns when the environment proposes `want`
ScanStartRc(s, want) ==
    IF ~s.bt_on THEN (IF want \in {"EAGAIN", "EOTHER"} THEN want ELSE "EAGAIN")
    ELSE IF s.scan_on THEN (IF want = "OK" THEN "EALREADY" ELSE want)
    ELSE IF want = "EALREADY" THEN "OK" ELSE want

bt_le_scan_start(s, fn, rc) ==
    [Call(s, fn, "bt_le_scan_start", rc) EXCEPT
        !.scan_on = IF rc = "OK" THEN TRUE ELSE @]

ScanStopRc(s, want) ==
    IF ~s.scan_on THEN (IF want = "OK" THEN "EALREADY" ELSE want) ELSE want

bt_le_scan_stop(s, fn, rc) ==
    [Call(s, fn, "bt_le_scan_stop", rc) EXCEPT
        !.scan_on = IF rc = "OK" THEN FALSE ELSE @]

FreeObjects(s) == { c \in Conns : s.conn[c].st = "free" /\ s.conn[c].refs = 0 }

ConnCreateRc(s, want) ==
    IF want = "OK" /\ (~s.bt_on \/ FreeObjects(s) = {}) THEN "EOTHER" ELSE want

\* bt_conn_le_create(addr, ..., &current_conn): on success the new object,
\* holding one reference for the caller, is stored through the out-parameter
bt_conn_le_create(s, fn, rc) ==
    IF rc = "OK"
    THEN LET c == CHOOSE x \in FreeObjects(s) : \A y \in FreeObjects(s) : x <= y
         IN  [Call(s, fn, "bt_conn_le_create", rc) EXCEPT
                 !.conn[c] = [st |-> "connecting", refs |-> 1],
                 !.current_conn = c]
    ELSE Call(s, fn, "bt_conn_le_create", rc)

ConnSt(s, c) == IF c = NULL THEN "NULL" ELSE s.conn[c].st

bt_conn_disconnect(s, fn, c) ==
    LET s1 == Call(s, fn, "bt_conn_disconnect", ConnSt(s, c))
    IN  IF c = NULL THEN [s1 EXCEPT !.ub = TRUE]
        ELSE [s1 EXCEPT !.conn[c].st =
                 CASE @ = "connected" -> "disconnecting"
                   [] @ = "connecting" -> "cancelled"
                   [] OTHER -> @]

bt_conn_unref(s, fn, c) ==
    LET s1 == Call(s, fn, "bt_conn_unref", ConnSt(s, c))
    IN  IF c = NULL \/ (c # NULL /\ s.conn[c].refs = 0)
        THEN [s1 EXCEPT !.ub = TRUE]
        ELSE [s1 EXCEPT !.conn[c].refs = @ - 1]

bt_conn_ref(s, c) == [s EXCEPT !.conn[c].refs = @ + 1]

GattDiscoverRc(s, c, want) ==
    IF c # NULL /\ s.conn[c].st = "connected" THEN want ELSE "EOTHER"

\* bt_gatt_discover(conn, &discover_params); a request accepted while
\* another one is outstanding on the connection is logged as "overlap"
bt_gatt_discover(s, fn, c, rc) ==
    IF rc = "OK"
    THEN [Call(IF s.disc.conn = c THEN Call(s, fn, "overlap", "") ELSE s,
               fn, "bt_gatt_discover", rc) EXCEPT
             !.disc = [conn |-> c,
                       type |-> s.discover_params.type,
                       uuid |-> s.discover_params.uuid,
                       next |-> s.discover_params.start_handle,
                       end |-> s.discover_params.end_handle]]
    ELSE Call(s, fn, "bt_gatt_discover", rc)

\* -EALREADY: the stack holds the subscription already, set up by an
\* earlier request or kept for a bonded peer over the reconnection
SubscribeRc(s, c, want) ==
    IF c = NULL \/ (c # NULL /\ s.conn[c].st # "connected") THEN "EOTHER"
    ELSE IF s.sub.conn = c THEN (IF want = "OK" THEN "EALREADY" ELSE want)
    ELSE want

\* bt_gatt_subscribe(conn, params)
bt_gatt_subscribe(s, fn, c, params, rc) ==
    IF rc = "OK" \/ (rc = "EALREADY" /\ s.sub.conn # c)
    THEN [Call(s, fn, "bt_gatt_subscribe", rc) EXCEPT
             !.sub = [conn |-> c,
                      value_handle |-> params.value_handle,
                      ccc_handle |-> params.ccc_handle]]
    ELSE Call(s, fn, "bt_gatt_subscribe", rc)

bt_gatt_unsubscribe(s, fn, c) ==
    [Call(s, fn, "bt_gatt_unsubscribe", ConnSt(s, c)) EXCEPT
        !.sub = IF @.conn = c THEN NoSub ELSE @]

DisableRc(s, want) ==
    IF ~s.bt_on /\ s.ready = "none" /\ want = "OK" THEN "EALREADY" ELSE want

\* bt_disable(): the stack goes down, scanning ends, every link is dropped
bt_disable(s, fn, rc) ==
    IF rc = "OK"
    THEN [Call(s, fn, "bt_disable", rc) EXCEPT
             !.bt_on = FALSE,
             !.ready = "none",
             !.scan_on = FALSE,
             !.conn = [c \in Conns |->
                         [@[c] EXCEPT !.st =
                             CASE @ = "connected" -> "disconnecting"
                               [] @ = "connecting" -> "cancelled"
                               [] OTHER -> @]]]
    ELSE Call(s, fn, "bt_disable", rc)

EnableRc(s, want) ==
    IF (s.bt_on \/ s.ready = "pending") /\ want = "OK" THEN "EALREADY" ELSE want

\* bt_enable(bt_ready): the stack initialises and calls bt_ready later
bt_enable(s, fn, rc) ==
    [Call(s, fn, "bt_enable", rc) EXCEPT
        !.ready = IF rc = "OK" THEN "pending" ELSE @]

\* k_work_schedule(&start_scan_work, delay)
k_work_schedule(s, fn) ==
    [Call(s, fn, "k_work_schedule", "start_scan_work") EXCEPT !.work = TRUE]

(* ------------------------------------------------------------------ *)
(* Frames and configurations                                            *)
(*                                                                      *)
(* f.pc    the block to run next ("ret": the callee returned)           *)
(* f.k     where the caller continues after "ret" ("done": nowhere)     *)
(* f.i     the loop counter of the block                                *)
(* f.conn  the conn argument of the callback                            *)
(* f.attr  the attr argument of discover_func                           *)
(* f.err   the err argument of connected and bt_ready                   *)
(* f.rv    what discover_func returns (BT_GATT_ITER_STOP / _CONTINUE)   *)
(* f.y     the block ended in k_sleep                                   *)
(* f.n     the k_sleep calls of the main thread since it last reached   *)
(*         the check at the head of its loop                            *)
(* ------------------------------------------------------------------ *)
Frame(pc, k, conn, attr, err) ==
    [pc |-> pc, k |-> k, i |-> 0, conn |-> conn, attr |-> attr, err |-> err,
     rv |-> "STOP", y |-> FALSE, n |-> 0]

Cfg(s, f) == [s |-> s, f |-> f]

\* continue at block pc
Goto(s, f, pc) == Cfg(s, [f EXCEPT !.pc = pc, !.i = 0])
\* sleep, then continue at block pc
Sleep(s, f, pc) == Cfg(s, [f EXCEPT !.pc = pc, !.i = 0, !.y = TRUE])
\* sleep inside a retry loop, then run block pc again with counter i
SleepLoop(s, f, pc, i) == Cfg(s, [f EXCEPT !.pc = pc, !.i = i, !.y = TRUE])
\* return to the caller
Return(s, f) == Cfg(s, [f EXCEPT !.pc = "ret", !.i = 0])

\* the inputs of one step: the return code each stack call would give, and
\* what the clock shows: timeout, more than two minutes have passed since
\* last_connection_time; expired, 60 s have passed since last_reset_time
Env(scan_start, scan_stop, create, discover, subscribe, disable, enable) ==
    [scan_start |-> scan_start, scan_stop |-> scan_stop, create |-> create,
     discover |-> discover, subscribe |-> subscribe, disable |-> disable,
     enable |-> enable, timeout |-> FALSE, expired |-> FALSE]

ClearHandles(s) ==
    [s EXCEPT !.nus_rx_handle = 0, !.nus_tx_handle = 0,
              !.nus_tx_ccc_handle = 0, !.nus_service_end_handle = 0]

ClearAllState(s) ==
    [ClearHandles(s) EXCEPT
        !.current_service_start_handle = 0,
        !.discover_params = ZeroDiscoverParams,
        !.nus_tx_subscribe_params = ZeroSubscribeParams]


Inc(x, cap) == Min(x + 1, cap)

(* ------------------------------------------------------------------ *)
(* Standalone central: start_scan                                       *)
(* ------------------------------------------------------------------ *)
\* lines 819-836: an existing connection that is not in the connected
\* state is torn down; a connected one ends the call
ss_check(s, f, e) ==
    LET s0 == Call(s, "start_scan", "enter", "")
    IN  IF s0.current_conn # NULL
        THEN IF s0.conn[s0.current_conn].st # "connected"
             THEN LET s1 == bt_conn_disconnect(s0, "start_scan", s0.current_conn)
                      s2 == bt_conn_unref(s1, "start_scan", s1.current_conn)
                  IN  Sleep([s2 EXCEPT !.current_conn = NULL], f, "ss_loop")
             ELSE Return(s0, f)
        ELSE Goto(s0, f, "ss_loop")

\* lines 848-881, one iteration of the retry loop (f.i is retry)
ss_loop(s, f, e) ==
    IF f.i >= SCAN_MAX_RETRIES
    THEN Goto(s, f, "cbr_scan_stop")
    ELSE LET rc == ScanStartRc(s, e.scan_start)
             s1 == bt_le_scan_start(s, "start_scan", rc)
         IN  CASE rc = "EAGAIN" -> SleepLoop(s1, f, "ss_loop", f.i + 1)
               [] rc \in {"OK", "EALREADY"} -> Return(s1, f)
               [] OTHER -> Return(k_work_schedule(s1, "start_scan"), f)

(* ------------------------------------------------------------------ *)
(* Standalone central: complete_bt_reset                                *)
(* ------------------------------------------------------------------ *)
\* lines 611-627, one iteration of the scan-stop loop
cbr_scan_stop(s, f, e) ==
    LET s0 == IF f.i = 0 THEN Call(s, "complete_bt_reset", "enter", "") ELSE s
    IN  IF f.i >= RESET_LOOP_TRIES
        THEN Goto(s0, f, "cbr_disc")
        ELSE LET rc == ScanStopRc(s0, e.scan_stop)
                 s1 == bt_le_scan_stop(s0, "complete_bt_reset", rc)
             IN  IF rc = "EAGAIN"
                 THEN SleepLoop(s1, f, "cbr_scan_stop", f.i + 1)
                 ELSE Goto(s1, f, "cbr_disc")

\* lines 630-633: disconnect, then k_sleep(100)
cbr_disc(s, f, e) ==
    IF s.current_conn # NULL
    THEN Sleep(bt_conn_disconnect(s, "complete_bt_reset", s.current_conn),
               f, "cbr_unref")
    ELSE Sleep(s, f, "cbr_state")

\* lines 634-643: release the reference read again after the sleep
cbr_unref(s, f, e) ==
    LET s1 == bt_conn_unref(s, "complete_bt_reset", s.current_conn)
    IN  Sleep([s1 EXCEPT !.current_conn = NULL], f, "cbr_state")

\* lines 645-656
cbr_state(s, f, e) ==
    Sleep(Call(ClearAllState(s), "complete_bt_reset", "clear_state", ""),
          f, "cbr_disable")

\* lines 662-677, one iteration of the disable loop
cbr_disable(s, f, e) ==
    IF f.i >= RESET_LOOP_TRIES
    THEN Sleep(s, f, "cbr_enable")
    ELSE LET rc == DisableRc(s, e.disable)
             s1 == bt_disable(s, "complete_bt_reset", rc)
         IN  IF rc = "EAGAIN"
             THEN SleepLoop(s1, f, "cbr_disable", f.i + 1)
             ELSE Sleep(s1, f, "cbr_enable")

\* lines 683-693, one iteration of the enable loop
cbr_enable(s, f, e) ==
    IF f.i >= RESET_LOOP_TRIES
    THEN Sleep(s, f, "cbr_sched")
    ELSE LET rc == EnableRc(s, e.enable)
             s1 == bt_enable(s, "complete_bt_reset", rc)
         IN  CASE rc = "OK" -> Sleep(s1, f, "cbr_sched")
               [] rc = "EAGAIN" -> SleepLoop(s1, f, "cbr_enable", f.i + 1)
               [] OTHER -> Sleep(s1, f, "cbr_enable2")

\* lines 694-706: the second attempt after k_sleep(2000)
cbr_enable2(s, f, e) ==
    Sleep(bt_enable(s, "complete_bt_reset", EnableRc(s, e.enable)), f, "cbr_sched")

\* lines 708-710: the work item is scheduled and 0 is returned
cbr_sched(s, f, e) ==
    Return(Call(k_work_schedule(s, "complete_bt_reset"),
                "complete_bt_reset", "return", "0"), f)

(* ------------------------------------------------------------------ *)
(* Standalone central: error_recovery (lines 136-197)                   *)
(* It only runs in callbacks, so its two k_sleep calls split nothing.   *)
(* ------------------------------------------------------------------ *)
error_recovery(s, f, e) ==
    LET s0 == Call(s, "error_recovery", "enter", "")
        s1 == [ClearHandles(s0) EXCEPT
                  !.discover_params = ZeroDiscoverParams,
                  !.consecutive_errors = Inc(@, ErrCap)]
    IN  IF s1.consecutive_errors >= ER_RESET_THRESHOLD
        THEN Goto(s1, f, "cbr_scan_stop")
        ELSE IF s1.current_conn # NULL
        THEN LET s2 == IF s1.nus_tx_subscribe_params.value_handle # 0
                       THEN [bt_gatt_unsubscribe(s1, "error_recovery", s1.current_conn)
                                EXCEPT !.nus_tx_subscribe_params = ZeroSubscribeParams]
                       ELSE s1
                 s3 == bt_conn_disconnect(s2, "error_recovery", s2.current_conn)
                 s4 == bt_conn_unref(s3, "error_recovery", s3.current_conn)
             IN  Goto([s4 EXCEPT !.current_conn = NULL], f, "ss_check")
        ELSE Goto(s1, f, "ss_check")

(* ------------------------------------------------------------------ *)
(* Standalone central: connection callbacks                             *)
(* ------------------------------------------------------------------ *)
\* lines 200-240
connected(s, f, e) ==
    IF f.err
    THEN Goto([s EXCEPT !.current_conn = NULL], f, "ss_check")
    ELSE LET s1 == [ClearHandles(bt_conn_ref(s, f.conn)) EXCEPT
                       !.current_conn = f.conn,
                       !.no_conn_2min = FALSE,
                       !.consecutive_errors = 0]
             s2 == bt_le_scan_stop(s1, "connected", ScanStopRc(s1, e.scan_stop))
             s3 == [s2 EXCEPT !.discover_params =
                       [type |-> "PRIMARY", uuid |-> "NUS",
                        start_handle |-> BT_ATT_FIRST_ATTRIBUTE_HANDLE,
                        end_handle |-> BT_ATT_LAST_ATTRIBUTE_HANDLE]]
             rc == GattDiscoverRc(s3, f.conn, e.discover)
             s4 == bt_gatt_discover(s3, "connected", f.conn, rc)
         IN  IF rc # "OK" THEN Goto(s4, f, "error_recovery") ELSE Return(s4, f)

\* lines 242-271
disconnected(s, f, e) ==
    IF s.current_conn # f.conn
    THEN Return(s, f)
    ELSE LET s1 == IF s.nus_tx_subscribe_params.value_handle # 0
                   THEN bt_gatt_unsubscribe(s, "disconnected", f.conn)
                   ELSE s
             s2 == bt_conn_unref(s1, "disconnected", s1.current_conn)
             s3 == [ClearHandles(s2) EXCEPT
                       !.current_conn = NULL,
                       !.current_service_start_handle = 0,
                       !.nus_tx_subscribe_params = ZeroSubscribeParams]
         IN  Goto(s3, f, "ss_check")

\* lines 75-103, called without data: the subscription was removed
nus_notify_callback(s, f, e) ==
    Return([s EXCEPT !.nus_tx_subscribe_params.value_handle = 0], f)


(* ------------------------------------------------------------------ *)
(* Standalone central: discover_func (lines 280-584)                    *)
(* params always points at discover_params.                             *)
(* ------------------------------------------------------------------ *)
DiscoverParams(type, uuid, from, to) ==
    [type |-> type, uuid |-> uuid, start_handle |-> from, end_handle |-> to]

Stop(s, f) == Return(s, [f EXCEPT !.rv = "STOP"])
Continue(s, f) == Return(s, [f EXCEPT !.rv = "CONTINUE"])
\* error_recovery(); return BT_GATT_ITER_STOP;
Recover(s, f) == Goto(s, [f EXCEPT !.rv = "STOP"], "error_recovery")

\* Rediscover letting the iteration go on after the new request
Rediscover_KeepsIterating(s, f, e, params) ==
    LET s1 == [s EXCEPT !.discover_params = params]
        rc == GattDiscoverRc(s1, f.conn, e.discover)
        s2 == bt_gatt_discover(s1, "discover_func", f.conn, rc)
    IN  IF rc # "OK" THEN Recover(s2, f) ELSE Continue(s2, f)

\* memset(params, 0, ...); fill params; bt_gatt_discover; on an error
\* error_recovery(); return BT_GATT_ITER_STOP
Rediscover(s, f, e, params) ==
    LET s1 == [s EXCEPT !.discover_params = params]
        rc == GattDiscoverRc(s1, f.conn, e.discover)
        s2 == bt_gatt_discover(s1, "discover_func", f.conn, rc)
    IN  IF rc # "OK" THEN Recover(s2, f) ELSE Stop(s2, f)

RECURSIVE RepeatCall(_, _, _, _, _)
RepeatCall(s, fn, op, a, n) ==
    IF n = 0 THEN s ELSE RepeatCall(Call(s, fn, op, a), fn, op, a, n - 1)

\* lines 286-336: the discovery ended without (further) attributes
df_exhausted(s, f, e) ==
    LET p == s.discover_params
    IN  CASE p.type = "PRIMARY" /\ p.uuid # "NONE" ->
                Rediscover(s, f, e,
                    DiscoverParams("PRIMARY", "NONE",
                                   BT_ATT_FIRST_ATTRIBUTE_HANDLE,
                                   BT_ATT_LAST_ATTRIBUTE_HANDLE))
          [] p.type = "CHARACTERISTIC" /\ p.uuid \in {"RX", "TX"} ->
                Rediscover(s, f, e,
                    DiscoverParams("CHARACTERISTIC", "NONE",
                                   s.current_service_start_handle,
                                   s.nus_service_end_handle))
          [] OTHER -> Recover(s, f)

\* lines 339-385: a primary service was reported
df_primary(s, f, e) ==
    IF f.attr.uuid = "NUS"
    THEN Rediscover([s EXCEPT !.current_service_start_handle = f.attr.handle,
                              !.nus_service_end_handle = f.attr.end_handle],
                    f, e,
                    DiscoverParams("CHARACTERISTIC", "RX",
                                   f.attr.handle + 1, f.attr.end_handle))
    ELSE Continue(s, f)

\* lines 438-455 and 465-482: both characteristics are known
df_find_ccc(s, f, e) ==
    IF s.nus_rx_handle # 0 /\ s.nus_tx_handle # 0
    THEN Rediscover(s, f, e,
             DiscoverParams("DESCRIPTOR", "CCC",
                            s.nus_tx_handle + 1, s.nus_service_end_handle))
    ELSE Continue(s, f)

\* lines 387-491: a characteristic was reported
df_characteristic(s, f, e) ==
    IF s.discover_params.uuid = "NONE"
    THEN Continue(s, f)
    ELSE CASE f.attr.uuid = "RX" ->
                 df_find_ccc([s EXCEPT !.nus_rx_handle = f.attr.handle + 1], f, e)
           [] f.attr.uuid = "TX" ->
                 df_find_ccc([s EXCEPT !.nus_tx_handle = f.attr.handle + 1], f, e)
           [] OTHER -> Continue(s, f)

\* df_subscribe with -EALREADY handled like any other error
df_subscribe_RetriesAlready(s, f, e) ==
    LET s1 == [s EXCEPT !.nus_tx_subscribe_params =
                  [value_handle |-> s.nus_tx_handle,
                   ccc_handle |-> s.nus_tx_ccc_handle]]
        rc == SubscribeRc(s1, f.conn, e.subscribe)
    IN  IF rc = "OK"
        THEN LET s2 == bt_gatt_subscribe(s1, "discover_func", f.conn,
                                         s1.nus_tx_subscribe_params, rc)
                 s3 == Call(s2, "discover_func", "k_sleep", "500")
                 s4 == Call(s3, "send_to_peripheral", "bt_gatt_write", "")
             IN  Stop([s4 EXCEPT !.discover_params = ZeroDiscoverParams], f)
        ELSE LET s2 == RepeatCall(s1, "discover_func", "bt_gatt_subscribe",
                                  rc, MAX_SUBSCRIBE_RETRIES)
                 s3 == Call(s2, "discover_func", "k_sleep", "retry")
             IN  Recover(s3, f)

\* lines 529-580: subscribe with up to five attempts; the same return code
\* is drawn for every attempt of one callback
df_subscribe(s, f, e) ==
    LET s1 == [s EXCEPT !.nus_tx_subscribe_params =
                  [value_handle |-> s.nus_tx_handle,
                   ccc_handle |-> s.nus_tx_ccc_handle]]
        rc == SubscribeRc(s1, f.conn, e.subscribe)
    IN  CASE rc = "OK" ->
                LET s2 == bt_gatt_subscribe(s1, "discover_func", f.conn,
                                       s1.nus_tx_subscribe_params, rc)
                    s3 == Call(s2, "discover_func", "k_sleep", "500")
                    s4 == Call(s3, "send_to_peripheral", "bt_gatt_write", "")
                IN  Stop([s4 EXCEPT !.discover_params = ZeroDiscoverParams], f)
          [] rc = "EALREADY" ->
                Stop([bt_gatt_subscribe(s1, "discover_func", f.conn,
                                       s1.nus_tx_subscribe_params, rc)
                         EXCEPT !.discover_params = ZeroDiscoverParams], f)
          [] OTHER ->
                LET s2 == RepeatCall(s1, "discover_func", "bt_gatt_subscribe",
                                     rc, MAX_SUBSCRIBE_RETRIES)
                    s3 == Call(s2, "discover_func", "k_sleep", "retry")
                IN  Recover(s3, f)

\* lines 493-581: a descriptor was reported
df_descriptor(s, f, e) ==
    IF s.nus_tx_handle = 0
    THEN Recover(s, f)
    ELSE IF s.discover_params.uuid \notin {"NONE", "CCC"}
    THEN Continue(s, f)
    ELSE IF f.attr.handle <= s.nus_tx_handle \/ f.attr.handle > s.nus_service_end_handle
    THEN Continue(s, f)
    ELSE LET s1 == [s EXCEPT !.nus_tx_ccc_handle = f.attr.handle]
         IN  IF s1.nus_rx_handle = 0 \/ s1.nus_tx_handle = 0 \/ s1.nus_tx_ccc_handle = 0
             THEN Recover(s1, f)
             ELSE df_subscribe(s1, f, e)

discover_func(s, f, e) ==
    IF f.attr = NoAttr THEN df_exhausted(s, f, e)
    ELSE CASE s.discover_params.type = "PRIMARY" -> df_primary(s, f, e)
           [] s.discover_params.type = "CHARACTERISTIC" -> df_characteristic(s, f, e)
           [] s.discover_params.type = "DESCRIPTOR" -> df_descriptor(s, f, e)
           [] OTHER -> Continue(s, f)

(* ------------------------------------------------------------------ *)
(* Standalone central: device_found for a matching advertisement        *)
(* (lines 713-811); s.reset_recent is current_time - last_reset_time <  *)
(* 60000 with current_time read on entry: it stays true until a call    *)
(* finds the 60 s expired                                               *)
(* ------------------------------------------------------------------ *)
\* NeedsCompleteReset with one more retry allowed
NeedsCompleteReset_ThreeRetries(retry_count, total_retry_count, reset_recent) ==
    \/ retry_count >= CREATE_RETRY_LIMIT + 1
    \/ (reset_recent /\ total_retry_count > TOTAL_RETRY_WINDOW_LIMIT)
    \/ (retry_count = 1 /\ total_retry_count > TOTAL_RETRY_HARD_LIMIT)

\* lines 778-780
NeedsCompleteReset(retry_count, total_retry_count, reset_recent) ==
    \/ retry_count >= CREATE_RETRY_LIMIT
    \/ (reset_recent /\ total_retry_count > TOTAL_RETRY_WINDOW_LIMIT)
    \/ (retry_count = 1 /\ total_retry_count > TOTAL_RETRY_HARD_LIMIT)

\* lines 768-808: the result of bt_conn_le_create
df_create_result(s, f, rc) ==
    CASE rc = "OK" -> Return([s EXCEPT !.retry_count = 0], f)
      [] rc = "EINVAL" ->
            LET s1 == [s EXCEPT !.retry_count = @ + 1,
                                !.total_retry_count = Inc(@, TotalCap)]
            IN  IF NeedsCompleteReset(s1.retry_count, s1.total_retry_count,
                                      s.reset_recent)
                THEN Goto([s1 EXCEPT !.reset_recent = TRUE,
                                     !.retry_count = 0,
                                     !.total_retry_count = 0],
                          f, "cbr_scan_stop")
                ELSE Return(k_work_schedule(s1, "device_found"), f)
      [] OTHER -> Goto([s EXCEPT !.retry_count = 0], f, "ss_check")

device_found(s00, f, e) ==
    LET s == [s00 EXCEPT !.reset_recent = @ /\ ~e.expired]
        rc0 == ScanStopRc(s, e.scan_stop)
        s0 == bt_le_scan_stop(s, "device_found", rc0)
    IN  IF rc0 # "OK"
        THEN Return(s0, f)
        ELSE LET s1 == bt_le_scan_stop(s0, "device_found", ScanStopRc(s0, "OK"))
                 s2 == IF s1.current_conn # NULL
                       THEN [bt_conn_unref(
                                bt_conn_disconnect(s1, "device_found", s1.current_conn),
                                "device_found", s1.current_conn)
                             EXCEPT !.current_conn = NULL]
                       ELSE s1
                 s3 == ClearAllState(s2)
                 rc == ConnCreateRc(s3, e.create)
                 s4 == bt_conn_le_create(s3, "device_found", rc)
             IN  df_create_result(s4, f, rc)

(* ------------------------------------------------------------------ *)
(* Standalone central: bt_ready (lines 883-926)                         *)
(* ------------------------------------------------------------------ *)
bt_ready(s, f, e) ==
    IF f.err
    THEN Return(bt_enable(s, "bt_ready", EnableRc(s, e.enable)), f)
    ELSE LET s1 == IF s.current_conn # NULL
                   THEN [bt_conn_unref(
                            bt_conn_disconnect(s, "bt_ready", s.current_conn),
                            "bt_ready", s.current_conn)
                         EXCEPT !.current_conn = NULL]
                   ELSE s
         IN  Return(k_work_schedule(ClearAllState(s1), "bt_ready"), f)

(* ------------------------------------------------------------------ *)
(* Standalone central: emergency_bt_reset (lines 930-962)               *)
(* ------------------------------------------------------------------ *)
\* lines 932-944
em_disable(s, f, e) ==
    LET s0 == Call(s, "emergency_bt_reset", "enter", "")
    IN  Sleep(bt_disable(s0, "emergency_bt_reset", DisableRc(s0, e.disable)),
              f, "em_enable")

\* lines 947-951 and 956-961
em_enable(s, f, e) ==
    LET rc == EnableRc(s, e.enable)
        s1 == bt_enable(s, "emergency_bt_reset", rc)
    IN  IF rc # "OK" THEN Sleep(s1, f, "em_enable2") ELSE Sleep(s1, f, "ret")

\* lines 952-961
em_enable2(s, f, e) ==
    Sleep(bt_enable(s, "emergency_bt_reset", EnableRc(s, e.enable)), f, "ret")

(* ------------------------------------------------------------------ *)
(* Standalone central: the main loop (lines 993-1027)                   *)
(* s.no_conn_2min is k_uptime_get() - last_connection_time > 2 minutes, *)
(* it becomes true when a check finds the two minutes run out           *)
(* ------------------------------------------------------------------ *)
\* line 995
main_sleep(s, f, e) == Sleep(s, f, "main_check")

\* main_check without the cap on emergency resets
main_check_Uncapped(s, f, e) ==
    IF s.current_conn = NULL
    THEN IF s.no_conn_2min \/ e.timeout
         THEN LET s1 == [s EXCEPT !.consecutive_errors = Inc(@, ErrCap),
                                  !.no_conn_2min = TRUE]
              IN  IF s1.consecutive_errors >= MAIN_EMERGENCY_ERRORS
                  THEN Goto(s1, [f EXCEPT !.k = "main_post_em"], "em_disable")
                  ELSE Goto(s1, [f EXCEPT !.k = "main_sleep"], "cbr_scan_stop")
         ELSE Goto(s, [f EXCEPT !.k = "main_sleep"], "ss_check")
    ELSE Goto([s EXCEPT !.consecutive_errors = 0, !.no_conn_2min = FALSE],
              f, "main_sleep")

\* main_check giving up once the emergency resets are used
main_check_GivesUp(s, f, e) ==
    IF s.current_conn = NULL /\ s.emergency_reset_count < MAX_EMERGENCY_RESETS
    THEN IF s.no_conn_2min \/ e.timeout
         THEN LET s1 == [s EXCEPT !.consecutive_errors = Inc(@, ErrCap),
                                  !.no_conn_2min = TRUE]
              IN  IF s1.consecutive_errors >= MAIN_EMERGENCY_ERRORS
                  THEN Goto(s1, [f EXCEPT !.k = "main_post_em"], "em_disable")
                  ELSE Goto(s1, [f EXCEPT !.k = "main_sleep"], "cbr_scan_stop")
         ELSE Goto(s, [f EXCEPT !.k = "main_sleep"], "ss_check")
    ELSE Goto([s EXCEPT !.consecutive_errors = 0, !.no_conn_2min = FALSE],
              f, "main_sleep")

\* lines 998-1026
main_check(s, f, e) ==
    IF s.current_conn = NULL
    THEN IF s.no_conn_2min \/ e.timeout
         THEN LET s1 == [s EXCEPT !.consecutive_errors = Inc(@, ErrCap),
                                  !.no_conn_2min = TRUE]
              IN  IF /\ s1.consecutive_errors >= MAIN_EMERGENCY_ERRORS
                     /\ s1.emergency_reset_count < MAX_EMERGENCY_RESETS
                  THEN Goto(s1, [f EXCEPT !.k = "main_post_em"], "em_disable")
                  ELSE Goto(s1, [f EXCEPT !.k = "main_sleep"], "cbr_scan_stop")
         ELSE Goto(s, [f EXCEPT !.k = "main_sleep"], "ss_check")
    ELSE Goto([s EXCEPT !.consecutive_errors = 0, !.no_conn_2min = FALSE],
              f, "main_sleep")

\* lines 1011-1013
main_post_em(s, f, e) ==
    Goto([s EXCEPT !.emergency_reset_count = @ + 1,
                   !.consecutive_errors = 0,
                   !.no_conn_2min = FALSE],
         f, "main_sleep")

(* ------------------------------------------------------------------ *)
(* Running blocks                                                       *)
(* ------------------------------------------------------------------ *)
Step(m, e) ==
    LET s == m.s
        f == m.f
    IN  CASE f.pc = "ss_check" -> ss_check(s, f, e)
          [] f.pc = "ss_loop" -> ss_loop(s, f, e)
          [] f.pc = "cbr_scan_stop" -> cbr_scan_stop(s, f, e)
          [] f.pc = "cbr_disc" -> cbr_disc(s, f, e)
          [] f.pc = "cbr_unref" -> cbr_unref(s, f, e)
          [] f.pc = "cbr_state" -> cbr_state(s, f, e)
          [] f.pc = "cbr_disable" -> cbr_disable(s, f, e)
          [] f.pc = "cbr_enable" -> cbr_enable(s, f, e)
          [] f.pc = "cbr_enable2" -> cbr_enable2(s, f, e)
          [] f.pc = "cbr_sched" -> cbr_sched(s, f, e)
          [] f.pc = "error_recovery" -> error_recovery(s, f, e)
          [] f.pc = "connected" -> connected(s, f, e)
          [] f.pc = "disconnected" -> disconnected(s, f, e)
          [] f.pc = "nus_notify_callback" -> nus_notify_callback(s, f, e)
          [] f.pc = "discover_func" -> discover_func(s, f, e)
          [] f.pc = "device_found" -> device_found(s, f, e)
          [] f.pc = "bt_ready" -> bt_ready(s, f, e)
          [] f.pc = "em_disable" -> em_disable(s, f, e)
          [] f.pc = "em_enable" -> em_enable(s, f, e)
          [] f.pc = "em_enable2" -> em_enable2(s, f, e)
          [] f.pc = "main_sleep" -> main_sleep(s, f, e)
          [] f.pc = "main_check" -> main_check(s, f, e)
          [] f.pc = "main_post_em" -> main_post_em(s, f, e)

\* the frame after a return: the caller continues at f.k
AfterReturn(f) == [f EXCEPT !.pc = f.k, !.k = "done"]

\* a callback or work item: the whole chain, sleeps included, in one step
RECURSIVE RunAtomic(_, _)
RunAtomic(m, e) ==
    IF m.f.pc = "ret"
    THEN m
    ELSE RunAtomic(Step(Cfg(m.s, [m.f EXCEPT !.y = FALSE]), e), e)

\* the main thread: from one k_sleep to the next
RECURSIVE RunToYield(_, _)
RunToYield(m, e) ==
    LET m1 == IF m.f.pc = "ret" THEN Cfg(m.s, AfterReturn(m.f)) ELSE m
        m2 == Step(Cfg(m1.s, [m1.f EXCEPT !.y = FALSE]), e)
    IN  IF m2.f.y THEN m2 ELSE RunToYield(m2, e)


(* ------------------------------------------------------------------ *)
(* Standalone central: the initial state and the observers              *)
(*                                                                      *)
(* s.peer, s.filtering   the peer's attribute table; whether the stack  *)
(*                       reports only attributes of the requested UUID  *)
(* s.watch       the observers among "hp", "streak", "run" that are kept *)
(* s.em_calls    how often emergency_bt_reset was entered               *)
(* s.streak      connections in a row that ended in error_recovery      *)
(* s.streak_reset  complete_bt_reset was entered during that run        *)
(* s.einval_run  results -EINVAL of bt_conn_le_create in a row           *)
(* s.hp          since the connection was established no stack call     *)
(*               failed and the link was not lost                       *)
(* s.adv_left    advertisement reports still to come (-1: any number)   *)
(* s.conns_left  connection attempts that may still succeed             *)
(* s.faults_left failures the environment may still cause               *)
(* s.timeouts_left  expiries of the two minutes still to come           *)
(* s.free        the failing environments that do not count             *)
(* ------------------------------------------------------------------ *)
\* the longest run of failed connections that is counted
StreakCap == 3
\* the longest run of -EINVAL results that is counted
RunCap == 3

Entered(s, fn) ==
    \E i \in DOMAIN s.calls : s.calls[i].fn = fn /\ s.calls[i].op = "enter"

Called(s, op, a) ==
    \E i \in DOMAIN s.calls : s.calls[i].op = op /\ s.calls[i].a = a

FailedCall(s) ==
    \E i \in DOMAIN s.calls :
        s.calls[i].a \in {"EAGAIN", "EOTHER", "EINVAL", "ENOMEM"}

\* every stack call succeeds
OkEnv == Env("OK", "OK", "OK", "OK", "OK", "OK", "OK")

\* the environments of one step: every call succeeds, or the calls of one
\* kind fail with one error
ScanEnvs == { [OkEnv EXCEPT !.scan_start = rc] : rc \in {"EAGAIN", "EOTHER"} }
      \cup { [OkEnv EXCEPT !.scan_stop = rc] : rc \in {"EAGAIN", "EOTHER"} }
CreateEnvs == { [OkEnv EXCEPT !.create = rc] : rc \in {"EINVAL", "EOTHER"} }
GattEnvs == { [OkEnv EXCEPT !.discover = "EOTHER"],
              [OkEnv EXCEPT !.subscribe = "EOTHER"],
              [OkEnv EXCEPT !.subscribe = "EALREADY"] }
ResetEnvs == { [OkEnv EXCEPT !.disable = rc] : rc \in {"EAGAIN", "EOTHER"} }
       \cup { [OkEnv EXCEPT !.enable = rc] : rc \in {"EAGAIN", "EOTHER"} }
\* the return codes of environment e
Rcs(e) == [e EXCEPT !.timeout = FALSE, !.expired = FALSE]
\* what the clock may show without a failing call
Clock == { [OkEnv EXCEPT !.timeout = TRUE], [OkEnv EXCEPT !.expired = TRUE] }
\* the environments state s may meet in a step where `failing` can occur
Envs(s, failing) ==
    {OkEnv}
    \cup (IF s.faults_left > 0 THEN failing ELSE {})
    \cup (failing \cap s.free)

\* the observers after a handler ran on state `pre` in environment e and
\* left state s
Observe(pre, s, e) ==
    LET failure == /\ Entered(s, "error_recovery")
                   /\ pre.current_conn # NULL
                   /\ pre.conn[pre.current_conn].st = "connected"
        streak0 == IF Called(s, "bt_gatt_subscribe", "OK") THEN 0 ELSE pre.streak
    IN  [s EXCEPT
            !.em_calls = IF Entered(s, "emergency_bt_reset")
                         THEN Min(@ + 1, MAX_EMERGENCY_RESETS + 1) ELSE @,
            !.streak = IF "streak" \notin s.watch THEN @
                       ELSE IF failure THEN Min(streak0 + 1, StreakCap)
                       ELSE streak0,
            !.streak_reset = IF "streak" \notin s.watch THEN @
                             ELSE IF streak0 = 0
                             THEN failure /\ Entered(s, "complete_bt_reset")
                             ELSE @ \/ Entered(s, "complete_bt_reset"),
            !.hp = @ /\ "hp" \in s.watch /\ ~FailedCall(s),
            !.einval_run = IF "run" \notin s.watch THEN @
                           ELSE IF Called(s, "bt_conn_le_create", "EINVAL")
                           THEN Min(@ + 1, RunCap)
                           ELSE IF \E rc \in {"OK", "EOTHER"} :
                                      Called(s, "bt_conn_le_create", rc)
                           THEN 0 ELSE @,
            !.conns_left = IF Called(s, "bt_conn_le_create", "OK")
                           THEN @ - 1 ELSE @,
            !.faults_left = IF /\ Rcs(e) # OkEnv
                               /\ Rcs(e) \notin pre.free
                               /\ FailedCall(s)
                            THEN @ - 1 ELSE @]

SaInit(peer, filtering, watch, adv, conns, faults, timeouts, free) ==
    [current_conn |-> NULL,
     nus_rx_handle |-> 0, nus_tx_handle |-> 0, nus_tx_ccc_handle |-> 0,
     current_service_start_handle |-> 0, nus_service_end_handle |-> 0,
     discover_params |-> ZeroDiscoverParams,
     nus_tx_subscribe_params |-> ZeroSubscribeParams,
     consecutive_errors |-> 0, emergency_reset_count |-> 0,
     retry_count |-> 0, total_retry_count |-> 0,
     reset_recent |-> TRUE, no_conn_2min |-> FALSE,
     bt_on |-> FALSE, ready |-> "pending", scan_on |-> FALSE, work |-> FALSE,
     conn |-> [c \in Conns |-> FreeConn], disc |-> NoDisc, sub |-> NoSub,
     calls |-> <<>>, ub |-> FALSE,
     peer |-> peer, filtering |-> filtering,
     watch |-> watch, em_calls |-> 0,
     streak |-> 0, streak_reset |-> FALSE, hp |-> FALSE, einval_run |-> 0,
     adv_left |-> adv, conns_left |-> conns, faults_left |-> faults,
     timeouts_left |-> timeouts, free |-> free]

\* a callback or work item `name` runs on state s0
Fire(s0, name, conn, attr, err, e) ==
    LET s1 == [s0 EXCEPT !.calls = <<>>]
        pre == IF conn # NULL /\ conn # s0.current_conn
               THEN Call(s1, name, "stale", "") ELSE s1
        m == RunAtomic(Cfg(pre, Frame(name, "done", conn, attr, err)), e)
    IN  Cfg(Observe(pre, m.s, e), m.f)


(* ------------------------------------------------------------------ *)
(* Standalone central: the actions                                      *)
(* ------------------------------------------------------------------ *)
\* the stack finished bt_enable and calls bt_ready(err)
BtReady ==
    /\ sa.ready = "pending"
    /\ \E err \in {FALSE} \cup {sa.faults_left > 0} :
          sa' = Fire([sa EXCEPT !.ready = "none", !.bt_on = ~err,
                                !.faults_left = IF err THEN @ - 1 ELSE @],
                     "bt_ready", NULL, NoAttr, err, OkEnv).s
    /\ UNCHANGED <<mainf, gw, lb, app>>

\* start_scan_work_handler (lines 69-72) runs start_scan
WorkFires ==
    /\ sa.work
    /\ \E e \in Envs(sa, ScanEnvs \cup ResetEnvs) :
          sa' = Fire(Call([sa EXCEPT !.work = FALSE, !.calls = <<>>],
                          "start_scan_work_handler", "enter", ""),
                     "ss_check", NULL, NoAttr, FALSE, e).s
    /\ UNCHANGED <<mainf, gw, lb, app>>

\* the scan reports an advertisement of the RentScan device
AdvReport ==
    /\ sa.bt_on /\ sa.scan_on /\ sa.adv_left # 0
    /\ \E e \in Envs(sa, ScanEnvs \cup CreateEnvs) :
       \E expired \in {FALSE} \cup {sa.reset_recent /\ e.create = "EINVAL"} :
          /\ (e.create = "OK" /\ e.scan_stop = "OK") => sa.conns_left > 0
          /\ sa' = Fire([sa EXCEPT !.adv_left = IF @ > 0 THEN @ - 1 ELSE @],
                        "device_found", NULL, NoAttr, FALSE,
                        [e EXCEPT !.expired = expired]).s
    /\ UNCHANGED <<mainf, gw, lb, app>>

\* the connection attempt on object c succeeded: connected(c, 0)
ConnEstablished ==
    /\ \E c \in Conns :
          /\ sa.conn[c].st = "connecting"
          /\ \E e \in Envs(sa, ScanEnvs \cup GattEnvs) :
                sa' = Fire([sa EXCEPT !.conn[c].st = "connected", !.hp = TRUE],
                           "connected", c, NoAttr, FALSE, e).s
    /\ UNCHANGED <<mainf, gw, lb, app>>

\* the connection attempt on object c was cancelled: connected(c, err)
ConnCancelled ==
    /\ \E c \in Conns :
          /\ sa.conn[c].st = "cancelled"
          /\ \E e \in Envs(sa, ScanEnvs) :
                sa' = Fire([sa EXCEPT !.conn[c].st = "free", !.hp = FALSE],
                           "connected", c, NoAttr, TRUE, e).s
    /\ UNCHANGED <<mainf, gw, lb, app>>

\* the connection attempt on object c failed: connected(c, err)
ConnFailed ==
    /\ \E c \in Conns :
          /\ sa.conn[c].st = "connecting"
          /\ sa.faults_left > 0
          /\ sa' = Fire([sa EXCEPT !.conn[c].st = "free", !.hp = FALSE,
                                   !.faults_left = @ - 1],
                        "connected", c, NoAttr, TRUE, OkEnv).s
    /\ UNCHANGED <<mainf, gw, lb, app>>

\* the link of object c is lost; the callbacks follow
LinkLoss ==
    /\ \E c \in Conns :
          /\ sa.conn[c].st = "connected"
          /\ sa.faults_left > 0
          /\ sa' = [sa EXCEPT !.conn[c].st = "disconnecting", !.hp = FALSE,
                              !.faults_left = @ - 1,
                              !.calls = <<>>]
    /\ UNCHANGED <<mainf, gw, lb, app>>

\* the outstanding discovery reports its next attribute, or its end when
\* nothing is left or the connection is going down; it goes on when
\* discover_func returns BT_GATT_ITER_CONTINUE, and a request issued by a
\* callback that lets it go on is logged as "overlap"
DiscoverResult ==
    /\ sa.disc.conn # NULL
    /\ \E e \in Envs(sa, GattEnvs \cup ScanEnvs) :
          LET d == sa.disc
              attr == IF sa.conn[d.conn].st = "connected"
                      THEN NextAttr(sa.peer, sa.filtering, d.type, d.uuid,
                                    d.next, d.end)
                      ELSE NoAttr
              m == Fire([sa EXCEPT !.disc = NoDisc],
                        "discover_func", d.conn, attr, FALSE, e)
          IN  sa' = IF m.f.rv = "CONTINUE" /\ attr # NoAttr
                    THEN IF m.s.disc = NoDisc
                         THEN [m.s EXCEPT !.disc = [d EXCEPT !.next = attr.handle + 1]]
                         ELSE Call(m.s, "discover_func", "overlap", "")
                    ELSE m.s
    /\ UNCHANGED <<mainf, gw, lb, app>>

\* the stack drops the subscription of a connection that is going down
\* and tells the application: nus_notify_callback(conn, params, NULL, 0)
NotifyRemoved ==
    /\ sa.sub.conn # NULL
    /\ sa.conn[sa.sub.conn].st # "connected"
    /\ sa' = Fire([sa EXCEPT !.sub = NoSub],
                  "nus_notify_callback", sa.sub.conn, NoAttr, FALSE, OkEnv).s
    /\ UNCHANGED <<mainf, gw, lb, app>>

\* the link of object c is down: disconnected(c, reason), after the
\* requests on it were ended
Disconnected ==
    /\ \E c \in Conns :
          /\ sa.conn[c].st = "disconnecting"
          /\ sa.disc.conn # c
          /\ sa.sub.conn # c
          /\ \E e \in Envs(sa, ScanEnvs) :
                sa' = Fire([sa EXCEPT !.conn[c].st = "free"],
                           "disconnected", c, NoAttr, FALSE, e).s
    /\ UNCHANGED <<mainf, gw, lb, app>>

\* the main thread runs from one k_sleep to the next
MainStep ==
    /\ mainf.pc # "off"
    /\ \E e \in Envs(sa, ScanEnvs \cup ResetEnvs)
                \cup { x \in Clock : /\ x.timeout
                                     /\ mainf.pc = "main_check"
                                     /\ sa.current_conn = NULL
                                     /\ ~sa.no_conn_2min
                                     /\ sa.timeouts_left > 0 } :
          LET pre == Call([sa EXCEPT !.calls = <<>>,
                                     !.timeouts_left =
                                         IF e.timeout THEN @ - 1 ELSE @],
                           "main", "run", "")
              m == RunToYield(Cfg(pre, mainf), e)
          IN  /\ sa' = Observe(pre, m.s, e)
              /\ mainf' = [m.f EXCEPT !.n = IF m.f.pc = "main_check"
                                             THEN 0 ELSE @ + 1]
    /\ UNCHANGED <<gw, lb, app>>

(* ------------------------------------------------------------------ *)
(* Gateway central (gateway_device/src/ble_central.c): state            *)
(*                                                                      *)
(* The record gw holds the statics of ble_central.c (current_conn,      *)
(* discover_params, subscribe_params, nus_rx_handle, nus_tx_handle,     *)
(* scanning, consecutive_errors) and the state of its BLE stack, with   *)
(* the fields of the standalone central's stack. Every handler runs in  *)
(* one step.                                                            *)
(* g.links_left   link losses still to come                             *)
(* g.resets_left  calls of ble_central_reset still to come              *)
(* ------------------------------------------------------------------ *)
GwInit(peer, adv, faults, links, resets) ==
    [current_conn |-> NULL,
     discover_params |-> ZeroDiscoverParams,
     subscribe_params |-> ZeroSubscribeParams,
     nus_rx_handle |-> 0, nus_tx_handle |-> 0,
     scanning |-> FALSE, consecutive_errors |-> 0,
     bt_on |-> TRUE, ready |-> "none", scan_on |-> FALSE, work |-> FALSE,
     conn |-> [c \in Conns |-> FreeConn], disc |-> NoDisc, sub |-> NoSub,
     calls |-> <<>>, ub |-> FALSE,
     peer |-> peer, filtering |-> TRUE,
     adv_left |-> adv, faults_left |-> faults, free |-> {},
     links_left |-> links, resets_left |-> resets,
     \* observer: the characteristics reported to discover_func by UUID
     \* since connected() last ran
     matched |-> {},
     \* observer: the connections in a row whose service discovery failed
     \* to start
     disc_failures |-> 0]

\* uint16_t arithmetic
U16(n) == n % 65536

\* bt_gatt_attr_value_handle(attr): the value handle of a characteristic
\* declaration, 0 for any other attribute
bt_gatt_attr_value_handle(attr) ==
    IF attr.kind = "CHARACTERISTIC" THEN attr.handle + 1 ELSE 0

(* ------------------------------------------------------------------ *)
(* Gateway central: start_scan, error_recovery, ble_central_reset       *)
(* ------------------------------------------------------------------ *)
\* lines 345-369: the retry loop of start_scan
RECURSIVE gw_scan_loop(_, _, _)
gw_scan_loop(s, e, retry_count) ==
    IF retry_count >= GW_SCAN_MAX_RETRIES
    THEN s
    ELSE LET rc == ScanStartRc(s, e.scan_start)
             s1 == bt_le_scan_start(s, "start_scan", rc)
         IN  IF rc = "OK" THEN [s1 EXCEPT !.scanning = TRUE]
             ELSE IF rc = "EAGAIN" THEN gw_scan_loop(s1, e, retry_count + 1)
             ELSE s1

\* lines 335-370
gw_start_scan(s, e) ==
    LET s0 == Call(s, "start_scan", "enter", "")
    IN  IF s0.scanning THEN s0 ELSE gw_scan_loop(s0, e, 0)

\* lines 445-465
gw_ble_central_reset(s, e) ==
    LET s0 == Call(s, "ble_central_reset", "enter", "")
        s1 == IF s0.current_conn # NULL
              THEN [bt_conn_unref(
                       bt_conn_disconnect(s0, "ble_central_reset", s0.current_conn),
                       "ble_central_reset", s0.current_conn)
                    EXCEPT !.current_conn = NULL]
              ELSE s0
        s2 == IF s1.scanning
              THEN [bt_le_scan_stop(s1, "ble_central_reset",
                                    ScanStopRc(s1, e.scan_stop))
                    EXCEPT !.scanning = FALSE]
              ELSE s1
    IN  Call(gw_start_scan(s2, e), "ble_central_reset", "return", "0")

\* lines 373-388
gw_error_recovery(s, e) ==
    LET s0 == Call(s, "error_recovery", "enter", "")
        s1 == [s0 EXCEPT !.consecutive_errors = @ + 1]
    IN  IF s1.consecutive_errors >= GATEWAY_ERROR_RESET_THRESHOLD
        THEN gw_ble_central_reset([s1 EXCEPT !.consecutive_errors = 0], e)
        ELSE LET s2 == IF s1.current_conn # NULL
                       THEN bt_conn_disconnect(s1, "error_recovery",
                                               s1.current_conn)
                       ELSE s1
             IN  gw_start_scan([s2 EXCEPT !.scanning = FALSE], e)

\* lines 406-412
gw_ble_central_start_scan(s, e) ==
    LET s0 == Call(s, "ble_central_start_scan", "enter", "")
        s1 == IF ~s0.scanning THEN gw_start_scan(s0, e) ELSE s0
    IN  Call(s1, "ble_central_start_scan", "return", "0")

\* lines 467-470
gw_ble_central_is_connected(s) == s.current_conn # NULL

\* lines 427-435; the stack refuses a write on a link that is not up
gw_ble_central_send_message(s) ==
    IF s.current_conn = NULL \/ s.nus_rx_handle = 0
    THEN Call(s, "ble_central_send_message", "return", "ENOTCONN")
    ELSE LET rc == IF s.conn[s.current_conn].st = "connected"
                   THEN "OK" ELSE "ENOTCONN"
         IN  Call(Call(s, "ble_central_send_message",
                       "bt_gatt_write_without_response", rc),
                  "ble_central_send_message", "return", rc)

(* ------------------------------------------------------------------ *)
(* Gateway central: the callbacks                                       *)
(* ------------------------------------------------------------------ *)
\* lines 32-47 with data = NULL: the subscription was removed
gw_notify_handler(s) == [s EXCEPT !.subscribe_params.value_handle = 0]

\* lines 69-131 for an advertisement of the RentScan device
gw_device_found(s, e) ==
    IF s.current_conn # NULL
    THEN s
    ELSE LET rc0 == ScanStopRc(s, e.scan_stop)
             s0 == bt_le_scan_stop(s, "device_found", rc0)
         IN  IF rc0 # "OK"
             THEN s0
             ELSE LET s1 == [s0 EXCEPT !.scanning = FALSE]
                      rc == ConnCreateRc(s1, e.create)
                      s2 == bt_conn_le_create(s1, "device_found", rc)
                  IN  IF rc # "OK"
                      THEN gw_start_scan([s2 EXCEPT !.scanning = FALSE], e)
                      ELSE s2

\* the subscribe requests of discover_func: the parameters are filled in
\* and bt_gatt_subscribe is called; a failure is only logged
gw_subscribe(s, c, value_handle, ccc_handle, e) ==
    LET s1 == [s EXCEPT !.subscribe_params =
                  [value_handle |-> value_handle, ccc_handle |-> ccc_handle]]
    IN  bt_gatt_subscribe(s1, "discover_func", c, s1.subscribe_params,
                          SubscribeRc(s1, c, e.subscribe))

\* lines 139-173: the discovery ended without an attribute
gw_df_exhausted(s, c, e) ==
    LET s0 == Call(s, "discover_func", "exhausted", s.discover_params.uuid)
        primary_handle == U16(s0.discover_params.start_handle - 1)
        s1 == IF s0.nus_tx_handle = 0
              THEN gw_subscribe([s0 EXCEPT
                                    !.nus_rx_handle = U16(primary_handle + 3),
                                    !.nus_tx_handle = U16(primary_handle + 5)],
                                c, U16(primary_handle + 5),
                                U16(primary_handle + 6), e)
              ELSE s0
    IN  [s1 EXCEPT !.discover_params = ZeroDiscoverParams]

\* the next stage: discover_params is set and bt_gatt_discover is called
gw_discover(s, c, uuid, type, attr, e) ==
    LET s1 == [s EXCEPT !.discover_params =
                  [type |-> type, uuid |-> uuid,
                   start_handle |-> attr.handle + 1,
                   end_handle |-> BT_ATT_LAST_ATTRIBUTE_HANDLE]]
    IN  bt_gatt_discover(s1, "discover_func", c, GattDiscoverRc(s1, c, e.discover))

\* lines 177-205: the service was reported
gw_df_service(s, c, attr, e) ==
    LET s1 == gw_discover(s, c, "RX", "CHARACTERISTIC", attr, e)
    IN  IF GattDiscoverRc(s, c, e.discover) = "ENOMEM"
        THEN gw_subscribe([s1 EXCEPT !.nus_rx_handle = U16(attr.handle + 3),
                                     !.nus_tx_handle = U16(attr.handle + 5)],
                          c, U16(attr.handle + 5), U16(attr.handle + 6), e)
        ELSE s1

\* lines 207-222: the RX characteristic was reported
gw_df_rx(s, c, attr, e) ==
    gw_discover([s EXCEPT !.nus_rx_handle = bt_gatt_attr_value_handle(attr),
                          !.matched = @ \cup {"RX"}],
                c, "TX", "CHARACTERISTIC", attr, e)

\* lines 224-254: the TX characteristic was reported
gw_df_tx(s, c, attr, e) ==
    LET s1 == gw_discover([s EXCEPT !.nus_tx_handle =
                                        bt_gatt_attr_value_handle(attr),
                                    !.matched = @ \cup {"TX"}],
                          c, "CCC", "DESCRIPTOR", attr, e)
    IN  IF GattDiscoverRc(s, c, e.discover) # "OK"
        THEN gw_subscribe(s1, c, s1.nus_tx_handle, U16(attr.handle + 2), e)
        ELSE s1

\* lines 256-274: the CCC descriptor was reported
gw_df_ccc(s, c, attr, e) == gw_subscribe(s, c, s.nus_tx_handle, attr.handle, e)

\* lines 133-282; bt_uuid_cmp on the NULL uuid of zeroed parameters reads
\* through a null pointer
gw_discover_func(s, c, attr, e) ==
    IF attr = NoAttr THEN gw_df_exhausted(s, c, e)
    ELSE CASE s.discover_params.uuid = "NUS" -> gw_df_service(s, c, attr, e)
           [] s.discover_params.uuid = "RX" -> gw_df_rx(s, c, attr, e)
           [] s.discover_params.uuid = "TX" -> gw_df_tx(s, c, attr, e)
           [] s.discover_params.uuid = "CCC" -> gw_df_ccc(s, c, attr, e)
           [] OTHER -> [s EXCEPT !.ub = TRUE]

\* lines 284-311
gw_connected(s, c, err, e) ==
    IF err
    THEN gw_start_scan([s EXCEPT !.scanning = FALSE], e)
    ELSE LET s1 == [bt_conn_ref(s, c) EXCEPT
                       !.current_conn = c,
                       !.consecutive_errors = 0,
                       !.matched = {},
                       !.disc_failures = IF GattDiscoverRc(s, c, e.discover) = "OK"
                                         THEN 0 ELSE @ + 1,
                       !.discover_params =
                           [type |-> "PRIMARY", uuid |-> "NUS",
                            start_handle |-> BT_ATT_FIRST_ATTRIBUTE_HANDLE,
                            end_handle |-> BT_ATT_LAST_ATTRIBUTE_HANDLE]]
             rc == GattDiscoverRc(s1, c, e.discover)
             s2 == bt_gatt_discover(s1, "connected", c, rc)
         IN  IF rc # "OK" THEN gw_error_recovery(s2, e) ELSE s2

\* lines 313-328
gw_disconnected(s, c, e) ==
    LET s0 == Call(s, "disconnected", "enter",
                   IF c = s.current_conn THEN "tracked" ELSE "other")
        s1 == IF s0.current_conn # NULL
              THEN [bt_conn_unref(s0, "disconnected", s0.current_conn)
                    EXCEPT !.current_conn = NULL]
              ELSE s0
    IN  gw_start_scan([s1 EXCEPT !.scanning = FALSE], e)

(* ------------------------------------------------------------------ *)
(* Gateway central: the actions                                         *)
(* ------------------------------------------------------------------ *)
\* the failing environments of the gateway's GATT requests
GwGattEnvs == { [OkEnv EXCEPT !.discover = rc] : rc \in {"EOTHER", "ENOMEM"} }
       \cup { [OkEnv EXCEPT !.subscribe = rc] : rc \in {"EOTHER", "EALREADY"} }

\* a handler of the gateway ran in environment e: s0 before, s after
GwDone(s0, s, e) ==
    [s EXCEPT !.faults_left = IF Rcs(e) # OkEnv /\ FailedCall(s)
                              THEN @ - 1 ELSE @]

GwBegin(s) == [s EXCEPT !.calls = <<>>]

\* main, the health check or the shell calls ble_central_start_scan
GwStartScan ==
    /\ gw.bt_on
    /\ \E e \in Envs(gw, ScanEnvs) :
          gw' = GwDone(gw, gw_ble_central_start_scan(GwBegin(gw), e), e)
    /\ UNCHANGED <<sa, mainf, lb, app>>

\* a user of the module calls ble_central_send_message (ble_central.h)
GwSendMessage ==
    /\ gw.bt_on
    /\ gw' = gw_ble_central_send_message(GwBegin(gw))
    /\ UNCHANGED <<sa, mainf, lb, app>>

\* the shell or the message handler calls ble_central_reset
GwReset ==
    /\ gw.bt_on /\ gw.resets_left > 0
    /\ \E e \in Envs(gw, ScanEnvs) :
          gw' = GwDone(gw, gw_ble_central_reset(
                               [GwBegin(gw) EXCEPT !.resets_left = @ - 1], e), e)
    /\ UNCHANGED <<sa, mainf, lb, app>>

\* the scan reports an advertisement of the RentScan device
GwAdvReport ==
    /\ gw.bt_on /\ gw.scan_on /\ gw.adv_left > 0
    /\ \E e \in Envs(gw, ScanEnvs \cup CreateEnvs) :
          gw' = GwDone(gw, gw_device_found(
                               [GwBegin(gw) EXCEPT !.adv_left = @ - 1], e), e)
    /\ UNCHANGED <<sa, mainf, lb, app>>

\* the connection attempt on object c succeeded: connected(c, 0)
GwConnEstablished ==
    /\ \E c \in Conns :
          /\ gw.conn[c].st = "connecting"
          /\ \E e \in Envs(gw, ScanEnvs \cup GwGattEnvs) :
                gw' = GwDone(gw, gw_connected(
                                     [GwBegin(gw) EXCEPT !.conn[c].st = "connected"],
                                     c, FALSE, e), e)
    /\ UNCHANGED <<sa, mainf, lb, app>>

\* the connection attempt on object c failed or was cancelled:
\* connected(c, err)
GwConnFailed ==
    /\ \E c \in Conns :
          /\ \/ gw.conn[c].st = "cancelled"
             \/ gw.conn[c].st = "connecting" /\ gw.links_left > 0
          /\ gw' = gw_connected(
                       [GwBegin(gw) EXCEPT
                           !.conn[c].st = "free",
                           !.links_left = IF gw.conn[c].st = "connecting"
                                          THEN @ - 1 ELSE @],
                       c, TRUE, OkEnv)
    /\ UNCHANGED <<sa, mainf, lb, app>>

\* the link of object c is lost; the callbacks follow
GwLinkLoss ==
    /\ \E c \in Conns :
          /\ gw.conn[c].st = "connected"
          /\ gw.links_left > 0
          /\ gw' = [GwBegin(gw) EXCEPT !.conn[c].st = "disconnecting",
                                       !.links_left = @ - 1]
    /\ UNCHANGED <<sa, mainf, lb, app>>

\* the outstanding discovery reports its next attribute, or its end when
\* nothing is left or the connection is going down; discover_func always
\* returns BT_GATT_ITER_STOP
GwDiscoverResult ==
    /\ gw.disc.conn # NULL
    /\ \E e \in Envs(gw, GwGattEnvs) :
          LET d == gw.disc
              attr == IF gw.conn[d.conn].st = "connected"
                      THEN NextAttr(gw.peer, gw.filtering, d.type, d.uuid,
                                    d.next, d.end)
                      ELSE NoAttr
          IN  gw' = GwDone(gw, gw_discover_func(
                                   [GwBegin(gw) EXCEPT !.disc = NoDisc],
                                   d.conn, attr, e), e)
    /\ UNCHANGED <<sa, mainf, lb, app>>

\* the stack drops the subscription of a connection that is going down:
\* notify_handler(conn, params, NULL, 0)
GwNotifyRemoved ==
    /\ gw.sub.conn # NULL
    /\ gw.conn[gw.sub.conn].st # "connected"
    /\ gw' = gw_notify_handler([GwBegin(gw) EXCEPT !.sub = NoSub])
    /\ UNCHANGED <<sa, mainf, lb, app>>

\* the link of object c is down: disconnected(c, reason), after the
\* requests on it were ended
GwDisconnected ==
    /\ \E c \in Conns :
          /\ gw.conn[c].st = "disconnecting"
          /\ gw.disc.conn # c
          /\ gw.sub.conn # c
          /\ \E e \in Envs(gw, ScanEnvs) :
                gw' = GwDone(gw, gw_disconnected(
                                     [GwBegin(gw) EXCEPT !.conn[c].st = "free"],
                                     c, e), e)
    /\ UNCHANGED <<sa, mainf, lb, app>>

(* ------------------------------------------------------------------ *)
(* Loopback central (test_loopback/src/mock_ble_central.c)              *)
(*                                                                      *)
(* The record lb holds the statics of mock_ble_central.c and the state  *)
(* of its BLE stack; s.work is connect_work being scheduled. Every      *)
(* handler runs in one step.                                            *)
(* ------------------------------------------------------------------ *)
LbInit(peer, adv, faults, links, scans) ==
    [current_conn |-> NULL, discovery_complete |-> FALSE,
     discover_params |-> ZeroDiscoverParams,
     tx_subscribe_params |-> ZeroSubscribeParams,
     rx_handle |-> 0, tx_handle |-> 0, is_device_found |-> FALSE,
     bt_on |-> TRUE, ready |-> "none", scan_on |-> FALSE, work |-> FALSE,
     conn |-> [c \in Conns |-> FreeConn], disc |-> NoDisc, sub |-> NoSub,
     calls |-> <<>>, ub |-> FALSE,
     peer |-> peer, filtering |-> TRUE,
     adv_left |-> adv, faults_left |-> faults, free |-> {},
     links_left |-> links, scans_left |-> scans]

\* lines 290-302
mock_ble_central_start_scan(s, e) ==
    bt_le_scan_start(s, "mock_ble_central_start_scan",
                     ScanStartRc(s, e.scan_start))

\* lines 175-202 for an advertisement that carries the service UUID
device_found_cb(s, e) ==
    LET s1 == bt_le_scan_stop(s, "device_found_cb", ScanStopRc(s, e.scan_stop))
    IN  [Call(s1, "device_found_cb", "k_work_schedule", "connect_work")
            EXCEPT !.is_device_found = TRUE, !.work = TRUE]

\* lines 205-225
connect_work_handler(s, e) ==
    IF ~s.is_device_found
    THEN s
    ELSE LET rc == ConnCreateRc(s, e.create)
             s1 == bt_conn_le_create(s, "connect_work_handler", rc)
         IN  IF rc # "OK"
             THEN mock_ble_central_start_scan(
                      [s1 EXCEPT !.is_device_found = FALSE], e)
             ELSE s1

\* lines 91-108 with data = NULL: the subscription was removed
notify_func(s) == [s EXCEPT !.tx_subscribe_params.value_handle = 0]

\* lines 111-172; start_handle and type are set for the next stage,
\* end_handle stays
lb_discover_func(s, c, attr, e) ==
    LET next(s0, uuid) ==
            LET s1 == [s0 EXCEPT !.discover_params =
                          [@ EXCEPT !.uuid = uuid,
                                    !.start_handle = attr.handle + 1,
                                    !.type = "CHARACTERISTIC"]]
            IN  bt_gatt_discover(s1, "discover_func", c,
                                 GattDiscoverRc(s1, c, e.discover))
        value_handle == bt_gatt_attr_value_handle(attr)
    IN  IF attr = NoAttr
        THEN [s EXCEPT !.discover_params = ZeroDiscoverParams]
        ELSE CASE s.discover_params.uuid = "NUS" -> next(s, "RX")
               [] s.discover_params.uuid = "RX" ->
                     next([s EXCEPT !.rx_handle = value_handle], "TX")
               [] s.discover_params.uuid = "TX" ->
                     LET s1 == [s EXCEPT
                                   !.tx_handle = value_handle,
                                   !.tx_subscribe_params =
                                       [value_handle |-> value_handle,
                                        ccc_handle |-> U16(value_handle + 1)]]
                         rc == SubscribeRc(s1, c, e.subscribe)
                         s2 == bt_gatt_subscribe(s1, "discover_func", c,
                                                 s1.tx_subscribe_params, rc)
                     IN  IF rc \in {"OK", "EALREADY"}
                         THEN [s2 EXCEPT !.discovery_complete = TRUE]
                         ELSE s2
               [] OTHER -> [s EXCEPT !.ub = TRUE]

\* lines 228-258
lb_connected(s, c, err, e) ==
    IF err
    THEN mock_ble_central_start_scan([s EXCEPT !.is_device_found = FALSE], e)
    ELSE IF s.is_device_found
    THEN LET s1 == [bt_conn_ref(s, c) EXCEPT
                       !.current_conn = c,
                       !.discovery_complete = FALSE,
                       !.discover_params =
                           [type |-> "PRIMARY", uuid |-> "NUS",
                            start_handle |-> BT_ATT_FIRST_ATTRIBUTE_HANDLE,
                            end_handle |-> BT_ATT_LAST_ATTRIBUTE_HANDLE]]
             rc == GattDiscoverRc(s1, c, e.discover)
             s2 == bt_gatt_discover(s1, "connected", c, rc)
         IN  IF rc # "OK" THEN bt_conn_disconnect(s2, "connected", c) ELSE s2
    ELSE s

\* lines 260-273
lb_disconnected(s, c, e) ==
    LET s1 == IF s.current_conn # NULL
              THEN [bt_conn_unref(s, "disconnected", s.current_conn)
                    EXCEPT !.current_conn = NULL]
              ELSE s
    IN  mock_ble_central_start_scan(
            [s1 EXCEPT !.is_device_found = FALSE,
                       !.discovery_complete = FALSE], e)

(* ------------------------------------------------------------------ *)
(* Loopback central: the actions                                        *)
(* ------------------------------------------------------------------ *)
\* the test's start_scan_work_handler calls mock_ble_central_start_scan
LbStartScan ==
    /\ lb.bt_on /\ lb.scans_left > 0
    /\ \E e \in Envs(lb, ScanEnvs) :
          lb' = GwDone(lb, mock_ble_central_start_scan(
                               [GwBegin(lb) EXCEPT !.scans_left = @ - 1], e), e)
    /\ UNCHANGED <<sa, mainf, gw, app>>

\* the scan reports an advertisement of the RentScan device
LbAdvReport ==
    /\ lb.bt_on /\ lb.scan_on /\ lb.adv_left > 0
    /\ \E e \in Envs(lb, ScanEnvs) :
          lb' = GwDone(lb, device_found_cb(
                               [GwBegin(lb) EXCEPT !.adv_left = @ - 1], e), e)
    /\ UNCHANGED <<sa, mainf, gw, app>>

\* connect_work runs
LbConnectWork ==
    /\ lb.work
    /\ \E e \in Envs(lb, ScanEnvs \cup CreateEnvs) :
          lb' = GwDone(lb, connect_work_handler(
                               [GwBegin(lb) EXCEPT !.work = FALSE], e), e)
    /\ UNCHANGED <<sa, mainf, gw, app>>

\* the connection attempt on object c succeeded: connected(c, 0)
LbConnEstablished ==
    /\ \E c \in Conns :
          /\ lb.conn[c].st = "connecting"
          /\ \E e \in Envs(lb, GwGattEnvs) :
                lb' = GwDone(lb, lb_connected(
                                     [GwBegin(lb) EXCEPT !.conn[c].st = "connected"],
                                     c, FALSE, e), e)
    /\ UNCHANGED <<sa, mainf, gw, app>>

\* the connection attempt on object c failed: connected(c, err)
LbConnFailed ==
    /\ \E c \in Conns :
          /\ lb.conn[c].st = "connecting" /\ lb.links_left > 0
          /\ lb' = lb_connected([GwBegin(lb) EXCEPT !.conn[c].st = "free",
                                                    !.links_left = @ - 1],
                                c, TRUE, OkEnv)
    /\ UNCHANGED <<sa, mainf, gw, app>>

\* the link of object c is lost; the callbacks follow
LbLinkLoss ==
    /\ \E c \in Conns :
          /\ lb.conn[c].st = "connected"
          /\ lb.links_left > 0
          /\ lb' = [GwBegin(lb) EXCEPT !.conn[c].st = "disconnecting",
                                       !.links_left = @ - 1]
    /\ UNCHANGED <<sa, mainf, gw, app>>

\* the outstanding discovery reports its next attribute, or its end;
\* discover_func always returns BT_GATT_ITER_STOP
LbDiscoverResult ==
    /\ lb.disc.conn # NULL
    /\ \E e \in Envs(lb, GwGattEnvs) :
          LET d == lb.disc
              attr == IF lb.conn[d.conn].st = "connected"
                      THEN NextAttr(lb.peer, lb.filtering, d.type, d.uuid,
                                    d.next, d.end)
                      ELSE NoAttr
          IN  lb' = GwDone(lb, lb_discover_func(
                                   [GwBegin(lb) EXCEPT !.disc = NoDisc],
                                   d.conn, attr, e), e)
    /\ UNCHANGED <<sa, mainf, gw, app>>

\* the stack drops the subscription of a connection that is going down:
\* notify_func(conn, params, NULL, 0)
LbNotifyRemoved ==
    /\ lb.sub.conn # NULL
    /\ lb.conn[lb.sub.conn].st # "connected"
    /\ lb' = notify_func([GwBegin(lb) EXCEPT !.sub = NoSub])
    /\ UNCHANGED <<sa, mainf, gw, app>>

\* the link of object c is down: disconnected(c, reason), after the
\* requests on it were ended
LbDisconnected ==
    /\ \E c \in Conns :
          /\ lb.conn[c].st = "disconnecting"
          /\ lb.disc.conn # c
          /\ lb.sub.conn # c
          /\ \E e \in Envs(lb, ScanEnvs) :
                lb' = GwDone(lb, lb_disconnected(
                                     [GwBegin(lb) EXCEPT !.conn[c].st = "free"],
                                     c, e), e)
    /\ UNCHANGED <<sa, mainf, gw, app>>

(* ------------------------------------------------------------------ *)
(* The applications                                                     *)
(*                                                                      *)
(* The record app holds the statics of main_application/rental_logic.c  *)
(* and the counter of the ble_send the rental logic is linked with.     *)
(* a.calls logs what the last step did, a.uptime is k_uptime_get_32().  *)
(* ------------------------------------------------------------------ *)
\* a log entry of an application
Note(a, fn, op, arg) ==
    [a EXCEPT !.calls = Append(@, [fn |-> fn, op |-> op, a |-> arg])]

\* the step ran function fn, which logged op with argument arg
Noted(a, fn, op, arg) ==
    \E i \in DOMAIN a.calls :
        a.calls[i].fn = fn /\ a.calls[i].op = op /\ a.calls[i].a = arg

\* how often the step called ble_send
Sends(a) == Cardinality({i \in DOMAIN a.calls : a.calls[i].fn = "ble_send"})

\* a rentscan_msg_t (rentscan_protocol.h lines 57-66); tag_id is the
\* content of the 16-byte field, the lengths are uint8_t
Msg(cmd, tag_id, tag_id_len, timestamp, duration, payload_len) ==
    [cmd |-> cmd, status |-> 0, tag_id |-> tag_id, tag_id_len |-> tag_id_len,
     timestamp |-> timestamp, duration |-> duration,
     payload_len |-> payload_len]
NoMsg == Msg(0, "", 0, 0, 0, 0)

AppInit ==
    [\* rental_logic.c
     item_is_rented |-> FALSE, last_item_id |-> <<>>, last_item_id_len |-> 0,
     rental_start_time |-> 0,
     ble_send_count |-> 0,
     \* gateway_device/src/main.c
     current_msg |-> NoMsg, message_ready |-> FALSE, consecutive_errors |-> 0,
     msg_work |-> FALSE,
     \* gateway_service.c: the first message_count entries of messages,
     \* the first rental_count entries of active_rentals
     backend_connected |-> FALSE, backend_error_count |-> 0,
     messages |-> <<>>, message_count |-> 0, last_sent_timestamp |-> 0,
     active_rentals |-> <<>>, rental_count |-> 0,
     \* rental_manager.c: the first num_rentals entries of rentals
     rentals |-> <<>>, num_rentals |-> 0,
     \* main_device/src/main.c
     tag_id_buf |-> "", tag_id_len |-> 0, tag_data_len |-> 0,
     tag_processing |-> FALSE, nfc_work |-> FALSE,
     \* RentScan_v3 rental_data.c: the first m_num_items entries of
     \* m_rental_database; storage_manager.c: the header and the items in
     \* flash
     m_rental_database |-> <<>>, m_num_items |-> 0, m_current_time |-> 0,
     flash |-> [valid |-> FALSE, items |-> <<>>],
     msgs_left |-> 0, calls_left |-> 0,
     \* observers: the messages passed to ble_message_handler and to
     \* gateway_service_process_message, in order
     received |-> <<>>, processed |-> <<>>,
     uptime |-> 0, calls |-> <<>>]

AppBegin(a) == [a EXCEPT !.calls = <<>>]

\* item ids as byte strings: "ITEM123", "ITEM456", and one of 33 bytes;
\* NullId is the NULL pointer that comes with length 0
ITEM123 == <<73, 84, 69, 77, 49, 50, 51>>
ITEM456 == <<73, 84, 69, 77, 52, 53, 54>>
LongItem == [i \in 1..33 |-> 88]
NullId == <<>>
ItemIds == {ITEM123, ITEM456, LongItem}
\* sizeof(id_buf), rental_logic.c line 18
ID_BUF_SIZE == 33

\* ble_send(msg) as the rental logic's tests link it
ble_send(a) ==
    [Note(a, "ble_send", "call", "") EXCEPT !.ble_send_count = @ + 1]

\* rental_logic_process_scan announcing the start of a rental over BLE
rental_logic_process_scan_SendsOnStart(a, item_id, item_id_len) ==
    LET len == IF item_id_len >= ID_BUF_SIZE THEN ID_BUF_SIZE - 1
               ELSE item_id_len
        id == SubSeq(item_id, 1, len)
        a0 == Note(a, "rental_logic_process_scan", "enter",
                   IF item_id = NullId /\ item_id_len = 0
                   THEN "invalid" ELSE "valid")
    IN  IF ~a0.item_is_rented
        THEN ble_send([a0 EXCEPT !.item_is_rented = TRUE,
                                 !.last_item_id = id,
                                 !.last_item_id_len = len,
                                 !.rental_start_time = a0.uptime])
        ELSE IF a0.last_item_id_len = len /\ a0.last_item_id = id
        THEN [a0 EXCEPT !.item_is_rented = FALSE]
        ELSE a0

\* rental_logic_process_scan recording the item without starting the rental
rental_logic_process_scan_NeverStarts(a, item_id, item_id_len) ==
    LET len == IF item_id_len >= ID_BUF_SIZE THEN ID_BUF_SIZE - 1
               ELSE item_id_len
        id == SubSeq(item_id, 1, len)
        a0 == Note(a, "rental_logic_process_scan", "enter",
                   IF item_id = NullId /\ item_id_len = 0
                   THEN "invalid" ELSE "valid")
    IN  IF ~a0.item_is_rented
        THEN [a0 EXCEPT !.last_item_id = id,
                        !.last_item_id_len = len,
                        !.rental_start_time = a0.uptime]
        ELSE IF a0.last_item_id_len = len /\ a0.last_item_id = id
        THEN [a0 EXCEPT !.item_is_rented = FALSE]
        ELSE a0

\* rental_logic.c lines 16-57; memcpy of 0 bytes from NULL copies nothing
rental_logic_process_scan(a, item_id, item_id_len) ==
    LET len == IF item_id_len >= ID_BUF_SIZE THEN ID_BUF_SIZE - 1
               ELSE item_id_len
        id == SubSeq(item_id, 1, len)
        a0 == Note(a, "rental_logic_process_scan", "enter",
                   IF item_id = NullId /\ item_id_len = 0
                   THEN "invalid" ELSE "valid")
    IN  IF ~a0.item_is_rented
        THEN [a0 EXCEPT !.item_is_rented = TRUE,
                        !.last_item_id = id,
                        !.last_item_id_len = len,
                        !.rental_start_time = a0.uptime]
        ELSE IF a0.last_item_id_len = len /\ a0.last_item_id = id
        THEN [a0 EXCEPT !.item_is_rented = FALSE]
        ELSE a0

\* rental_logic.h lines 20-25 and the test of lines 23-32: a status
\* notification is sent while a rental is active
rental_logic_update_status(a) ==
    LET a0 == Note(a, "rental_logic_update_status", "enter", "")
    IN  IF a0.item_is_rented THEN ble_send(a0) ELSE a0

\* an NFC tag is read (main.c line 194), or a scan without data
RlScan ==
    /\ \E item_id \in ItemIds \cup {NullId} :
          app' = rental_logic_process_scan(AppBegin(app), item_id, Len(item_id))
    /\ UNCHANGED <<sa, mainf, gw, lb>>

\* the periodic status update
RlUpdateStatus ==
    /\ app.ble_send_count < MaxSends
    /\ app' = rental_logic_update_status(AppBegin(app))
    /\ UNCHANGED <<sa, mainf, gw, lb>>

\* time passes
Tick ==
    /\ app.uptime < MaxUptime
    /\ app' = [AppBegin(app) EXCEPT !.uptime = @ + 1]
    /\ UNCHANGED <<sa, mainf, gw, lb>>

(* ------------------------------------------------------------------ *)
(* Gateway application (gateway_device/src/main.c, gateway_service.c)   *)
(* ------------------------------------------------------------------ *)
\* the tags and the messages of the runs
TagIds == {"T1", "T2"}
TagLens == {4, MAX_TAG_ID_LEN + 1}
PayloadLens == {0, MAX_MSG_PAYLOAD + 1}
Msgs ==
    { Msg(cmd, tag, len, ts, 1, plen) :
        cmd \in {CMD_RENTAL_START, CMD_RENTAL_END, CMD_STATUS_REQ},
        tag \in TagIds, len \in TagLens, ts \in {0}, plen \in PayloadLens }

\* gateway_service_process_message where a message is stored while the
\* count is at most BACKEND_SIM_STORAGE_SIZE
gateway_service_process_message_StoresWhenFull(a, msg) ==
    LET a0 == Note(a, "gateway_service_process_message", "enter", "")
    IN  IF ~a0.backend_connected
        THEN IF a0.message_count <= BACKEND_SIM_STORAGE_SIZE
             THEN Note([a0 EXCEPT !.messages = Append(@, msg),
                                  !.message_count = @ + 1],
                       "gateway_service_process_message", "return", "0")
             ELSE Note([a0 EXCEPT !.backend_error_count = @ + 1],
                       "gateway_service_process_message", "return", "ENOSPC")
        ELSE Note(Note([a0 EXCEPT !.last_sent_timestamp = a0.uptime],
                       "gateway_service_process_message", "sent", ""),
                  "gateway_service_process_message", "return", "0")

\* gateway_service.c lines 180-237 for msg # NULL; the return value is
\* logged
gateway_service_process_message(a, msg) ==
    LET a0 == Note(a, "gateway_service_process_message", "enter", "")
    IN  IF ~a0.backend_connected
        THEN IF a0.message_count < BACKEND_SIM_STORAGE_SIZE
             THEN Note([a0 EXCEPT !.messages = Append(@, msg),
                                  !.message_count = @ + 1],
                       "gateway_service_process_message", "return", "0")
             ELSE Note([a0 EXCEPT !.backend_error_count = @ + 1],
                       "gateway_service_process_message", "return", "ENOSPC")
        ELSE Note(Note([a0 EXCEPT !.last_sent_timestamp = a0.uptime],
                       "gateway_service_process_message", "sent", ""),
                  "gateway_service_process_message", "return", "0")

\* main.c lines 34-44
ble_message_handler(a, msg) ==
    [Note(a, "ble_message_handler", "k_work_submit", "message_process_work")
        EXCEPT !.current_msg = msg, !.message_ready = TRUE, !.msg_work = TRUE,
               !.received = Append(@, msg)]

\* ble_central.c lines 32-47 for data # NULL; full: length >=
\* sizeof(rentscan_msg_t)
notify_handler(a, msg, full) ==
    IF full THEN ble_message_handler(a, msg) ELSE a

\* main.c lines 49-74 up to the call of ble_central_reset
message_process_work_handler(a) ==
    IF ~a.message_ready
    THEN a
    ELSE LET a1 == gateway_service_process_message(
                      [a EXCEPT !.processed = Append(@, a.current_msg)],
                      a.current_msg)
             failed == ~Noted(a1, "gateway_service_process_message",
                              "return", "0")
             a2 == IF failed
                   THEN IF a1.consecutive_errors + 1 >=
                             GATEWAY_ERROR_RESET_THRESHOLD
                        THEN Note([a1 EXCEPT !.consecutive_errors = 0],
                                  "message_process_work_handler",
                                  "ble_central_reset", "")
                        ELSE [a1 EXCEPT !.consecutive_errors = @ + 1]
                   ELSE [a1 EXCEPT !.consecutive_errors = 0]
         IN  [a2 EXCEPT !.message_ready = FALSE]

\* gateway_service.c lines 103-145; rv stands for sys_rand32_get() % 10:
\* 0, 1, or 2 and more
backend_sim_check_handler(a, rv) ==
    LET a1 == CASE ~a.backend_connected /\ rv >= 2 ->
                      [a EXCEPT !.backend_connected = TRUE]
                [] a.backend_connected /\ rv = 0 ->
                      [a EXCEPT !.backend_connected = FALSE]
                [] OTHER -> a
    IN  IF a1.backend_connected /\ a1.message_count > 0
        THEN Note([a1 EXCEPT !.message_count = 0, !.messages = <<>>,
                             !.last_sent_timestamp = a1.uptime],
                  "backend_sim_check_handler", "flush", "")
        ELSE a1

\* the item and user ids of the runs: strings shorter than the fields they
\* are copied to, so that strncpy copies them whole
ItemNames == {"T1", "T2"}
UserNames == {"U1"}
strlen(s) == 2

\* gateway_service.c lines 86-100: the index of the active rental of
\* item_id, 0 for NULL
find_rental_by_item_id(a, item_id) ==
    LET found == {i \in 1..a.rental_count :
                     /\ a.active_rentals[i].item_id = item_id
                     /\ a.active_rentals[i].active}
    IN  IF found = {} THEN 0 ELSE CHOOSE i \in found : \A j \in found : i <= j

\* gateway_service.c lines 239-291 for item_id, user_id # NULL
gateway_service_start_rental(a, item_id, user_id, duration) ==
    LET fn == "gateway_service_start_rental"
        a0 == Note(a, fn, "enter", item_id)
    IN  IF duration = 0 THEN Note(a0, fn, "return", "EINVAL")
        ELSE IF find_rental_by_item_id(a0, item_id) # 0
        THEN Note(a0, fn, "return", "EBUSY")
        ELSE IF a0.rental_count >= GS_MAX_ACTIVE_RENTALS
        THEN Note(a0, fn, "return", "ENOSPC")
        ELSE LET a1 == [a0 EXCEPT
                          !.active_rentals = Append(@,
                              [item_id |-> item_id, user_id |-> user_id,
                               start_time |-> a0.uptime,
                               duration |-> duration, active |-> TRUE]),
                          !.rental_count = @ + 1]
                 msg == [Msg(CMD_RENTAL_START, item_id, strlen(item_id),
                             a0.uptime, duration, strlen(user_id))
                            EXCEPT !.status = STATUS_RENTED]
                 a2 == gateway_service_process_message(a1, msg)
             IN  Note(a2, fn, "return", a2.calls[Len(a2.calls)].a)

\* gateway_service.c lines 293-331 for item_id # NULL
gateway_service_end_rental(a, item_id) ==
    LET fn == "gateway_service_end_rental"
        a0 == Note(a, fn, "enter", item_id)
        rental == find_rental_by_item_id(a0, item_id)
    IN  IF rental = 0 THEN Note(a0, fn, "return", "ENOENT")
        ELSE LET a1 == [a0 EXCEPT !.active_rentals[rental].active = FALSE]
                 msg == [Msg(CMD_RENTAL_END, item_id, strlen(item_id),
                             a0.uptime,
                             a0.uptime - a0.active_rentals[rental].start_time, 0)
                            EXCEPT !.status = STATUS_AVAILABLE]
                 a2 == gateway_service_process_message(a1, msg)
             IN  Note(a2, fn, "return", a2.calls[Len(a2.calls)].a)

\* the shell command that starts a rental runs (main.c line 310)
GsStartRental ==
    /\ app.calls_left > 0
    /\ \E item \in ItemNames, user \in UserNames, duration \in {0, 1} :
          app' = gateway_service_start_rental(
                    [AppBegin(app) EXCEPT !.calls_left = @ - 1],
                    item, user, duration)
    /\ UNCHANGED <<sa, mainf, gw, lb>>

\* the shell command that ends a rental runs (main.c line 335)
GsEndRental ==
    /\ app.calls_left > 0
    /\ \E item \in ItemNames :
          app' = gateway_service_end_rental(
                    [AppBegin(app) EXCEPT !.calls_left = @ - 1], item)
    /\ UNCHANGED <<sa, mainf, gw, lb>>

\* the device notifies a message
GaNotify ==
    /\ app.msgs_left > 0
    /\ \E msg \in Msgs, full \in BOOLEAN :
          app' = notify_handler([AppBegin(app) EXCEPT !.msgs_left = @ - 1],
                                msg, full)
    /\ UNCHANGED <<sa, mainf, gw, lb>>

\* the system work queue runs message_process_work; the reset of the BLE
\* central it may ask for is step GwReset of the central
GaMessageWork ==
    /\ app.msg_work
    /\ app' = message_process_work_handler(
                  [AppBegin(app) EXCEPT !.msg_work = FALSE])
    /\ UNCHANGED <<sa, mainf, gw, lb>>

\* the backend check work item runs
GaBackendCheck ==
    /\ \E rv \in 0..2 : app' = backend_sim_check_handler(AppBegin(app), rv)
    /\ UNCHANGED <<sa, mainf, gw, lb>>

(* ------------------------------------------------------------------ *)
(* Main device (main_device/src/main.c, rental_manager.c)               *)
(*                                                                      *)
(* A tag id is the name of a byte string and the number of its bytes    *)
(* taken: two ids are the same bytes when both agree.                   *)
(* ------------------------------------------------------------------ *)
\* main.c lines 79-91; the result of ble_service_send_message is logged
\* only
rental_status_changed_handler(a) ==
    [Note(a, "rental_status_changed_handler", "ble_service_send_message", "")
        EXCEPT !.tag_processing = FALSE]

\* rental_manager.c lines 25-41, status_callback being
\* rental_status_changed_handler
send_status_update(a, i) ==
    rental_status_changed_handler(
        Note(a, "send_status_update", "status_callback", ""))

\* rental_manager.c lines 43-52: the index of the entry, 0 for NULL
find_rental(a, tag_id, tag_id_len) ==
    LET found == {i \in 1..a.num_rentals :
                     /\ a.rentals[i].tag_id_len = tag_id_len
                     /\ a.rentals[i].tag_id = tag_id}
    IN  IF found = {} THEN 0 ELSE CHOOSE i \in found : \A j \in found : i <= j

\* rental_manager.c lines 91-113 for tag_id # NULL
rental_manager_process_tag(a, tag_id, tag_id_len) ==
    LET a0 == Note(a, "rental_manager_process_tag", "enter", "")
    IN  IF tag_id_len = 0 \/ tag_id_len > MAX_TAG_ID_LEN
        THEN Note(a0, "rental_manager_process_tag", "return", "EINVAL")
        ELSE LET entry == find_rental(a0, tag_id, tag_id_len)
                 a1 == IF entry = 0 /\ a0.num_rentals < RM_MAX_ACTIVE_RENTALS
                       THEN send_status_update(
                               [a0 EXCEPT
                                  !.rentals = Append(@,
                                      [tag_id |-> tag_id,
                                       tag_id_len |-> tag_id_len,
                                       status |-> STATUS_AVAILABLE,
                                       start_time |-> 0, duration |-> 0]),
                                  !.num_rentals = @ + 1],
                               a0.num_rentals + 1)
                       ELSE a0
             IN  Note(a1, "rental_manager_process_tag", "return", "0")

\* the name of a command in the log
CmdName(cmd) ==
    CASE cmd = CMD_RENTAL_START -> "START"
      [] cmd = CMD_RENTAL_END -> "END"
      [] OTHER -> "OTHER"

\* rental_manager_process_command where CMD_RENTAL_START is refused for a
\* rented entry only
rental_manager_process_command_StartsExpired(a, msg, full) ==
    LET fn == "rental_manager_process_command"
        a0 == Note(a, fn, "enter", CmdName(msg.cmd))
        entry == find_rental(a0, msg.tag_id, msg.tag_id_len)
    IN  IF ~full THEN Note(a0, fn, "return", "EINVAL")
        ELSE IF entry = 0 THEN Note(a0, fn, "return", "ENOENT")
        ELSE IF msg.cmd = CMD_RENTAL_START
        THEN IF a0.rentals[entry].status = STATUS_RENTED
             THEN Note(a0, fn, "return", "EBUSY")
             ELSE Note(send_status_update(
                          [a0 EXCEPT !.rentals[entry].status = STATUS_RENTED,
                                     !.rentals[entry].start_time = msg.timestamp,
                                     !.rentals[entry].duration = msg.duration],
                          entry),
                       fn, "return", "0")
        ELSE IF msg.cmd = CMD_RENTAL_END
        THEN IF a0.rentals[entry].status \notin {STATUS_RENTED, STATUS_EXPIRED}
             THEN Note(a0, fn, "return", "EINVAL")
             ELSE Note(send_status_update(
                          [a0 EXCEPT !.rentals[entry].status = STATUS_AVAILABLE,
                                     !.rentals[entry].start_time = 0,
                                     !.rentals[entry].duration = 0],
                          entry),
                       fn, "return", "0")
        ELSE Note(a0, fn, "return", "EINVAL")

\* rental_manager.c lines 115-158 for data # NULL; full: len >=
\* sizeof(rentscan_msg_t); the command is logged on entry
rental_manager_process_command(a, msg, full) ==
    LET fn == "rental_manager_process_command"
        a0 == Note(a, fn, "enter", CmdName(msg.cmd))
        entry == find_rental(a0, msg.tag_id, msg.tag_id_len)
    IN  IF ~full THEN Note(a0, fn, "return", "EINVAL")
        ELSE IF entry = 0 THEN Note(a0, fn, "return", "ENOENT")
        ELSE IF msg.cmd = CMD_RENTAL_START
        THEN IF a0.rentals[entry].status # STATUS_AVAILABLE
             THEN Note(a0, fn, "return", "EBUSY")
             ELSE Note(send_status_update(
                          [a0 EXCEPT !.rentals[entry].status = STATUS_RENTED,
                                     !.rentals[entry].start_time = msg.timestamp,
                                     !.rentals[entry].duration = msg.duration],
                          entry),
                       fn, "return", "0")
        ELSE IF msg.cmd = CMD_RENTAL_END
        THEN IF a0.rentals[entry].status \notin {STATUS_RENTED, STATUS_EXPIRED}
             THEN Note(a0, fn, "return", "EINVAL")
             ELSE Note(send_status_update(
                          [a0 EXCEPT !.rentals[entry].status = STATUS_AVAILABLE,
                                     !.rentals[entry].start_time = 0,
                                     !.rentals[entry].duration = 0],
                          entry),
                       fn, "return", "0")
        ELSE Note(a0, fn, "return", "EINVAL")

\* rental_manager.c lines 54-76: the loop from entry i on
RECURSIVE check_loop(_, _)
check_loop(a, i) ==
    IF i > a.num_rentals THEN a
    ELSE IF /\ a.rentals[i].status = STATUS_RENTED
            /\ a.uptime >= a.rentals[i].start_time + a.rentals[i].duration
         THEN check_loop(send_status_update(
                            [a EXCEPT !.rentals[i].status = STATUS_EXPIRED],
                            i),
                         i + 1)
         ELSE check_loop(a, i + 1)

check_work_handler(a) ==
    check_loop(Note(a, "check_work_handler", "enter", ""), 1)

\* rental_manager.c lines 160-177
rental_manager_check_expirations(a) ==
    check_loop(Note(a, "rental_manager_check_expirations", "enter", ""), 1)

\* main.c lines 136-147
expiry_check_work_handler(a) == rental_manager_check_expirations(a)

\* main.c lines 36-64
tag_detected_handler(a, tag_id, id_len, data_len) ==
    IF a.tag_processing
    THEN Note(a, "tag_detected_handler", "ignored", "")
    ELSE [Note(a, "tag_detected_handler", "k_work_submit", "nfc_process_work")
             EXCEPT !.tag_id_buf = tag_id,
                    !.tag_id_len = Min(id_len, MAX_TAG_ID_LEN),
                    !.tag_data_len = Min(data_len, MAX_MSG_PAYLOAD),
                    !.tag_processing = TRUE,
                    !.nfc_work = TRUE]

\* main.c lines 96-131; linked: ble_service_is_connected()
nfc_process_work_handler(a, linked) ==
    LET a0 == Note(a, "nfc_process_work_handler", "enter", "")
        a1 == IF linked
              THEN Note(a0, "nfc_process_work_handler",
                        "ble_service_send_message", "0")
              ELSE a0
        a2 == rental_manager_process_tag(a1, a1.tag_id_buf, a1.tag_id_len)
    IN  [a2 EXCEPT !.tag_processing = FALSE]

\* main.c lines 69-76
ble_data_received_handler(a, msg, full) ==
    rental_manager_process_command(a, msg, full)

\* the tags the NFC reader reports: with an empty id, with an id that
\* fits, with an id longer than the buffer
TagReports ==
    {<<"T1", 0>>, <<"T1", 4>>, <<"T2", 4>>, <<"T2", MAX_TAG_ID_LEN + 1>>}

\* the NFC reader reports a tag with more data than the buffer holds
MdTagDetected ==
    /\ \E r \in TagReports :
          app' = tag_detected_handler(AppBegin(app), r[1], r[2],
                                      MAX_MSG_PAYLOAD + 1)
    /\ UNCHANGED <<sa, mainf, gw, lb>>

\* the system work queue runs nfc_process_work
MdNfcWork ==
    /\ app.nfc_work
    /\ \E linked \in BOOLEAN :
          app' = nfc_process_work_handler(
                    [AppBegin(app) EXCEPT !.nfc_work = FALSE], linked)
    /\ UNCHANGED <<sa, mainf, gw, lb>>

\* the gateway writes a command to the BLE service
MdCommand ==
    /\ \E msg \in Msgs, full \in BOOLEAN :
          app' = ble_data_received_handler(AppBegin(app), msg, full)
    /\ UNCHANGED <<sa, mainf, gw, lb>>

\* the rental manager's check work item runs
MdCheckWork ==
    /\ app' = check_work_handler(AppBegin(app))
    /\ UNCHANGED <<sa, mainf, gw, lb>>

\* the expiry check work item of main.c runs
MdExpiryCheck ==
    /\ app' = expiry_check_work_handler(AppBegin(app))
    /\ UNCHANGED <<sa, mainf, gw, lb>>

(* ------------------------------------------------------------------ *)
(* The runs                                                             *)
(* ------------------------------------------------------------------ *)
\* a central that is not started: main has not run, the stack is down
SaOff == [SaInit(PeerFull, TRUE, {}, 0, 0, 0, 0, {}) EXCEPT !.ready = "none"]
MainOff == Frame("off", "done", NULL, NoAttr, FALSE)
GwOff == [GwInit(PeerFull, 0, 0, 0, 0) EXCEPT !.bt_on = FALSE]
LbOff == [LbInit(PeerFull, 0, 0, 0, 0) EXCEPT !.bt_on = FALSE]

\* The runs of the standalone central differ in what the environment does:
\* which peer there is, adv advertisement reports, conns connection
\* attempts that succeed, faults failing steps, timeouts expiries of the
\* two minutes, free the failures that may occur at will.
SaStart(peers, filterings, watch, adv, conns, faults, timeouts, free) ==
    /\ \E peer \in peers, filtering \in filterings :
          sa = SaInit(peer, filtering, watch, adv, conns, faults, timeouts,
                      free)
    /\ mainf = Frame("main_sleep", "done", NULL, NoAttr, FALSE)
    /\ gw = GwOff
    /\ lb = LbOff
    /\ app = AppInit

\* what happens without a failure of the environment
Quiet ==
    \/ BtReady
    \/ WorkFires
    \/ AdvReport
    \/ ConnEstablished
    \/ DiscoverResult
    \/ Disconnected
    \/ MainStep

\* one connection, one failure of the environment
Init == SaStart(Peers, BOOLEAN, {"hp"}, MaxAdv, MaxAdv, MaxFaults, 0, {})

Next ==
    \/ Quiet
    \/ ConnCancelled
    \/ ConnFailed
    \/ LinkLoss
    \/ NotifyRemoved

Spec == Init /\ [][Next]_vars

\* connection after connection without a failure of the environment
InitEscalation ==
    SaStart({PeerNoService}, BOOLEAN, {"streak"}, EscAdv, EscAdv, 0, 0, {})
SpecEscalation == InitEscalation /\ [][Quiet]_vars

\* the supervisory loop with the two minutes running out
InitWatchdog ==
    SaStart({PeerFull}, {TRUE}, {}, WdAdv, WdAdv, WdFaults, WdTimeouts, {})
SpecWatchdog == InitWatchdog /\ [][Quiet]_vars

\* the supervisory loop in a reset while a connection comes and goes
InitRace ==
    SaStart({PeerFull}, {FALSE}, {}, RaceAdv, RaceAdv, RaceFaults, RaceTimeouts,
            {})
SpecRace == InitRace /\ [][Next]_vars

\* connection attempts that fail at will, any number of advertisements
InitCreate ==
    SaStart({PeerNoService}, {TRUE}, {"run"}, -1, CrConns, 0, 0, CreateEnvs)
SpecCreate == InitCreate /\ [][Quiet]_vars

\* two advertisement reports and a scan start that is busy once
InitDuplicate ==
    SaStart({PeerFull}, {TRUE}, {}, DupAdv, DupAdv, DupFaults, 0, {})
SpecDuplicate == InitDuplicate /\ [][Quiet]_vars

\* the gateway central alone
InitGateway ==
    /\ \E peer \in Peers : gw = GwInit(peer, GwAdv, GwFaults, GwLinks, GwResets)
    /\ sa = SaOff
    /\ mainf = MainOff
    /\ lb = LbOff
    /\ app = AppInit

NextGateway ==
    \/ GwStartScan
    \/ GwSendMessage
    \/ GwReset
    \/ GwAdvReport
    \/ GwConnEstablished
    \/ GwConnFailed
    \/ GwLinkLoss
    \/ GwDiscoverResult
    \/ GwNotifyRemoved
    \/ GwDisconnected

SpecGateway == InitGateway /\ [][NextGateway]_vars

\* the gateway central where bt_gatt_discover fails at will
InitDiscoverFail ==
    /\ gw = [GwInit(PeerFull, DfAdv, 0, DfLinks, DfResets)
               EXCEPT !.free = {[OkEnv EXCEPT !.discover = "EOTHER"]}]
    /\ sa = SaOff
    /\ mainf = MainOff
    /\ lb = LbOff
    /\ app = AppInit

SpecDiscoverFail == InitDiscoverFail /\ [][NextGateway]_vars

\* the loopback central alone
InitLoopback ==
    /\ \E peer \in Peers : lb = LbInit(peer, LbAdv, LbFaults, LbLinks, LbScans)
    /\ sa = SaOff
    /\ mainf = MainOff
    /\ gw = GwOff
    /\ app = AppInit

NextLoopback ==
    \/ LbStartScan
    \/ LbAdvReport
    \/ LbConnectWork
    \/ LbConnEstablished
    \/ LbConnFailed
    \/ LbLinkLoss
    \/ LbDiscoverResult
    \/ LbNotifyRemoved
    \/ LbDisconnected

SpecLoopback == InitLoopback /\ [][NextLoopback]_vars

\* the rental logic of the main application alone
InitRentalLogic ==
    /\ app = AppInit
    /\ sa = SaOff
    /\ mainf = MainOff
    /\ gw = GwOff
    /\ lb = LbOff

NextRentalLogic ==
    \/ RlScan
    \/ RlUpdateStatus
    \/ Tick

SpecRentalLogic == InitRentalLogic /\ [][NextRentalLogic]_vars

\* the gateway application alone, after gateway_service_init drew the
\* state of the backend
InitGatewayApp ==
    /\ \E b \in BOOLEAN :
          app = [AppInit EXCEPT !.backend_connected = b,
                                !.msgs_left = MsgInputs]
    /\ sa = SaOff
    /\ mainf = MainOff
    /\ gw = GwOff
    /\ lb = LbOff

NextGatewayApp ==
    \/ GaNotify
    \/ GaMessageWork
    \/ GaBackendCheck
    \/ Tick

SpecGatewayApp == InitGatewayApp /\ [][NextGatewayApp]_vars

\* the tags registered before the run starts, none of them rented
FillerIds == <<"F1", "F2", "F3", "F4", "F5", "F6", "F7", "F8", "F9", "F10">>
Fillers(n) ==
    [i \in 1..n |-> [tag_id |-> FillerIds[i], tag_id_len |-> 4,
                     status |-> STATUS_AVAILABLE,
                     start_time |-> 0, duration |-> 0]]

\* the messages queued before the run starts
QueuedBefore(n) == [i \in 1..n |-> Msg(CMD_STATUS_REQ, "T1", 2, 0, 0, 0)]

\* the rentals started and ended before the run starts
EndedBefore(n) ==
    [i \in 1..n |-> [item_id |-> "T1", user_id |-> "U1", start_time |-> 0,
                     duration |-> 1, active |-> FALSE]]

\* the gateway service with its backend: the queue is empty or lacks one
\* message to be full, the rental table is empty or has one entry that
\* was not used yet
InitGatewayService ==
    /\ \E b \in BOOLEAN, n \in {0, BACKEND_SIM_STORAGE_SIZE - 1},
          r \in {0, GS_MAX_ACTIVE_RENTALS - 1} :
          app = [AppInit EXCEPT !.backend_connected = b,
                                !.messages = QueuedBefore(n),
                                !.message_count = n,
                                !.active_rentals = EndedBefore(r),
                                !.rental_count = r,
                                !.calls_left = GsCalls]
    /\ sa = SaOff
    /\ mainf = MainOff
    /\ gw = GwOff
    /\ lb = LbOff

NextGatewayService ==
    \/ GsStartRental
    \/ GsEndRental
    \/ GaBackendCheck
    \/ Tick

SpecGatewayService == InitGatewayService /\ [][NextGatewayService]_vars

\* the main device alone: the rental table is empty, as after
\* rental_manager_init, or earlier tags have filled it up to its last entry
\* or the one before
InitMainDevice ==
    /\ \E n \in {0, RM_MAX_ACTIVE_RENTALS - 1, RM_MAX_ACTIVE_RENTALS} :
          app = [AppInit EXCEPT !.rentals = Fillers(n), !.num_rentals = n]
    /\ sa = SaOff
    /\ mainf = MainOff
    /\ gw = GwOff
    /\ lb = LbOff

NextMainDevice ==
    \/ MdTagDetected
    \/ MdNfcWork
    \/ MdCommand
    \/ MdCheckWork
    \/ MdExpiryCheck
    \/ Tick

SpecMainDevice == InitMainDevice /\ [][NextMainDevice]_vars

\* any one of the three centrals
InitCentrals == Init \/ InitGateway \/ InitLoopback
NextCentrals == Next \/ NextGateway \/ NextLoopback
SpecCentrals == InitCentrals /\ [][NextCentrals]_vars

(* ------------------------------------------------------------------ *)
(* Properties of the standalone central                                 *)
(* ------------------------------------------------------------------ *)
\* C2 (happy path): on a connection to a peer with the service, RX, TX and
\* a CCC descriptor after the TX value, with a stack that reports only the
\* attributes of the requested UUID and with no failing stack call,
\* error_recovery is never entered.
C2_HappyPathWithoutRecovery ==
    (sa.hp /\ sa.peer = PeerFull /\ sa.filtering)
        => ~Entered(sa, "error_recovery")

\* C4 (monotonic escalation): when three connections in a row have ended
\* in error_recovery, complete_bt_reset has been entered in the course of
\* these failures.
C4_ResetByThirdFailure == sa.streak >= 3 => sa.streak_reset

\* C5 (emergency reset cap): emergency_bt_reset is entered at most twice
\* and emergency_reset_count never exceeds 2.
C5_EmergencyResetCap ==
    /\ sa.em_calls <= MAX_EMERGENCY_RESETS
    /\ sa.emergency_reset_count <= MAX_EMERGENCY_RESETS

\* both emergency resets are used, the threshold of five errors is reached
\* again and the loop runs complete_bt_reset instead
C5_CapReached ==
    /\ sa.em_calls = MAX_EMERGENCY_RESETS
    /\ sa.emergency_reset_count = MAX_EMERGENCY_RESETS
    /\ sa.consecutive_errors >= MAIN_EMERGENCY_ERRORS
    /\ Called(sa, "run", "")
    /\ Entered(sa, "complete_bt_reset")

\* the main thread entered start_scan or complete_bt_reset in this step
MainAttempt ==
    /\ Called(sa, "run", "")
    /\ Entered(sa, "start_scan") \/ Entered(sa, "complete_bt_reset")

\* the k_sleep calls one pass of the main loop makes at most
LoopSleepBound == 30

\* C6 (degraded but alive): once both emergency resets are used, every
\* check of the main loop that finds no connection enters complete_bt_reset
\* or start_scan, and the loop is back at its check after a bounded number
\* of k_sleep calls, so it never stops attempting.
C6_DegradedButAlive ==
    /\ [][(/\ mainf.pc = "main_check"
           /\ Called(sa', "run", "")
           /\ sa.emergency_reset_count = MAX_EMERGENCY_RESETS
           /\ sa.current_conn = NULL)
          => Entered(sa', "start_scan") \/ Entered(sa', "complete_bt_reset")]_vars
    /\ [](mainf.n <= LoopSleepBound)

\* after both emergency resets the loop, without a connection, makes
\* another attempt
C6_AttemptAfterCap ==
    /\ sa.emergency_reset_count = MAX_EMERGENCY_RESETS
    /\ sa.current_conn = NULL
    /\ MainAttempt

(* ------------------------------------------------------------------ *)
(* C7: bt_conn_le_create returning -EINVAL (device_found, lines 768-808)*)
(* ------------------------------------------------------------------ *)
\* C7 as stated: whenever bt_conn_le_create returns -EINVAL and the attempt
\* before it did not, device_found only schedules the delayed scan restart
\* and does not enter complete_bt_reset
C7_FirstFailureOnlyRestarts ==
    (Called(sa, "bt_conn_le_create", "EINVAL") /\ sa.einval_run = 1)
        => (/\ ~Entered(sa, "complete_bt_reset")
            /\ Called(sa, "k_work_schedule", "start_scan_work"))

\* C7 (stale connection-create), with the count of all -EINVAL results taken
\* into account: a -EINVAL result met with retry_count 0 and fewer than four
\* -EINVAL results counted since the last complete reset leads only to the
\* delayed scan restart; a -EINVAL result met with retry_count 1 enters
\* complete_bt_reset in the same call of device_found and leaves both
\* counters 0; a successful bt_conn_le_create leaves retry_count 0
C7_StaleCreateEscalation ==
    [][/\ (/\ Called(sa', "bt_conn_le_create", "EINVAL")
           /\ sa.retry_count = 0
           /\ sa.total_retry_count < TOTAL_RETRY_WINDOW_LIMIT)
          => (/\ ~Entered(sa', "complete_bt_reset")
              /\ Called(sa', "k_work_schedule", "start_scan_work")
              /\ sa'.retry_count = 1)
       /\ (Called(sa', "bt_conn_le_create", "EINVAL") /\ sa.retry_count = 1)
          => (/\ Entered(sa', "complete_bt_reset")
              /\ sa'.retry_count = 0 /\ sa'.total_retry_count = 0)
       /\ Called(sa', "bt_conn_le_create", "OK") => sa'.retry_count = 0]_vars

\* the second -EINVAL in a row has just forced the complete reset
C7_SecondFailureResets ==
    /\ sa.einval_run = 2
    /\ Called(sa, "bt_conn_le_create", "EINVAL")
    /\ Entered(sa, "complete_bt_reset")
    /\ sa.retry_count = 0

(* ------------------------------------------------------------------ *)
(* C9, C10: the main loop, the scan work item and the callbacks         *)
(* ------------------------------------------------------------------ *)
\* C9 (scan/connect exclusion): start_scan and device_found never start the
\* scan and never disconnect the connection object while a connection is
\* established or its connected callback is still to come
C9_ScanConnectExclusion ==
    \A i \in DOMAIN sa.calls :
        sa.calls[i].fn \in {"start_scan", "device_found"} =>
            /\ ~(/\ sa.calls[i].op = "bt_le_scan_start"
                 /\ sa.calls[i].a = "OK"
                 /\ sa.calls[i].live)
            /\ ~(/\ sa.calls[i].op = "bt_conn_disconnect"
                 /\ sa.calls[i].a \in {"connecting", "connected"})

\* C10 (mutual exclusion on current_conn): no context releases or uses a
\* reference that is NULL or was already released
C10_NoUseAfterRelease == ~sa.ub

(* ------------------------------------------------------------------ *)
(* C8: callbacks for a connection that is not current_conn              *)
(* ------------------------------------------------------------------ *)
\* the handle variables, discovery parameters and subscription parameters
Handles(s) ==
    <<s.nus_rx_handle, s.nus_tx_handle, s.nus_tx_ccc_handle,
      s.current_service_start_handle, s.nus_service_end_handle,
      s.discover_params, s.nus_tx_subscribe_params>>

\* the step delivered discover_func or nus_notify_callback for a connection
\* other than current_conn
StaleDelivery(s) ==
    /\ s.calls # <<>>
    /\ s.calls[1].op = "stale"
    /\ s.calls[1].fn \in {"discover_func", "nus_notify_callback"}

\* C8 (stale-callback rejection, standalone central): a discovery-result or
\* notification callback for a connection other than current_conn changes no
\* handle variable, discovery parameter or subscription parameter and makes
\* no stack call
C8_StaleCallbackIsNoOp ==
    [][StaleDelivery(sa') =>
          (Handles(sa') = Handles(sa) /\ Len(sa'.calls) = 1)]_vars

(* ------------------------------------------------------------------ *)
(* C1, C3: the gateway central                                          *)
(* ------------------------------------------------------------------ *)
\* C1 (reset completeness, gateway central): when the disconnected callback
\* for the tracked connection has returned, the RX handle, the TX handle and
\* the subscription parameters are cleared
C1_ResetCompleteness ==
    Called(gw, "enter", "tracked") =>
        /\ gw.nus_rx_handle = 0
        /\ gw.nus_tx_handle = 0
        /\ gw.subscribe_params = ZeroSubscribeParams

\* a discovery that ended without an attribute, or a rejected subscribe
GwFailure(call) ==
    \/ call.op = "exhausted"
    \/ call.op = "bt_gatt_subscribe" /\ call.a \notin {"OK", "EALREADY"}

\* error recovery, a fallback subscribe or a disconnect
GwRecovery(call) ==
    \/ call.fn = "error_recovery" /\ call.op = "enter"
    \/ call.op = "bt_gatt_subscribe"
    \/ call.op = "bt_conn_disconnect"

\* C3 (failures are never dropped, gateway central): when a callback that
\* met an exhausted discovery or a rejected subscribe leaves the central
\* connected without a subscription, the callback took a recovery action
\* after the failure
C3_FailuresAreHandled ==
    (/\ gw.current_conn # NULL
     /\ gw.conn[gw.current_conn].st = "connected"
     /\ gw.sub.conn = NULL)
    => \A i \in DOMAIN gw.calls :
          GwFailure(gw.calls[i]) =>
              \E j \in DOMAIN gw.calls : j > i /\ GwRecovery(gw.calls[j])

(* ------------------------------------------------------------------ *)
(* C11: discovery requests of the three centrals                        *)
(* ------------------------------------------------------------------ *)
\* a discovery request was accepted in this step while another one was
\* outstanding on the same connection
Overlap(s) == \E i \in DOMAIN s.calls : s.calls[i].op = "overlap"

\* C11 (no discovery request races): in each of the three centrals no
\* bt_gatt_discover is accepted while a discovery request is outstanding on
\* the same connection: a discovery callback that issues a request ends the
\* iteration it was called from, and no other handler issues a request
\* while one is in progress
C11_OneDiscoveryPerConnection == ~Overlap(sa) /\ ~Overlap(gw) /\ ~Overlap(lb)

\* the standalone central's discover_func has issued the next request from
\* inside a callback, and that request is the one outstanding
C11_CallbackRediscovers ==
    /\ \E i \in DOMAIN sa.calls :
          /\ sa.calls[i].fn = "discover_func"
          /\ sa.calls[i].op = "bt_gatt_discover"
          /\ sa.calls[i].a = "OK"
    /\ sa.disc.conn = sa.current_conn
    /\ sa.disc.type = "CHARACTERISTIC"

(* ------------------------------------------------------------------ *)
(* C12: bt_gatt_subscribe answering -EALREADY                           *)
(* ------------------------------------------------------------------ *)
\* the subscribe requests made in the step
SubscribeCalls(s) ==
    { i \in DOMAIN s.calls : s.calls[i].op = "bt_gatt_subscribe" }

\* a subscribe request of the step was answered -EALREADY
AlreadySubscribed(s) == Called(s, "bt_gatt_subscribe", "EALREADY")

\* the state of a central and its stack without the log of calls
Outcome(s) == [s EXCEPT !.calls = <<>>]

\* the attribute the outstanding discovery of s reports next
Reported(s) ==
    IF s.conn[s.disc.conn].st = "connected"
    THEN NextAttr(s.peer, s.filtering, s.disc.type, s.disc.uuid,
                  s.disc.next, s.disc.end)
    ELSE NoAttr

InDeviceFound(s) == \E i \in DOMAIN s.calls : s.calls[i].fn = "device_found"

\* C13 (duplicate advertisement reports): in the standalone and the gateway
\* central a device_found call made while a connection attempt is pending
\* leaves the pending connection object as it is (not disconnected, not
\* released) and calls bt_conn_le_create no second time
C13_DuplicateReportIgnored ==
    [][\A c \in Conns :
          /\ (sa.conn[c].st = "connecting" /\ InDeviceFound(sa')) =>
                (/\ sa'.conn[c] = sa.conn[c]
                 /\ \A rc \in {"OK", "EINVAL", "EOTHER"} :
                       ~Called(sa', "bt_conn_le_create", rc))
          /\ (gw.conn[c].st = "connecting" /\ InDeviceFound(gw')) =>
                (/\ gw'.conn[c] = gw.conn[c]
                 /\ \A rc \in {"OK", "EINVAL", "EOTHER"} :
                       ~Called(gw', "bt_conn_le_create", rc))]_vars

(* ------------------------------------------------------------------ *)
(* C14: a start-scan request while the gateway is connected             *)
(* ------------------------------------------------------------------ *)
\* the central holds a connection that is established
Established(s) ==
    s.current_conn # NULL /\ s.conn[s.current_conn].st = "connected"

\* C14 (start-scan is a no-op when connected): a ble_central_start_scan
\* request made while the gateway holds an established connection issues no
\* bt_le_scan_start to the stack
C14_NoScanStartWhenConnected ==
    (Entered(gw, "ble_central_start_scan") /\ Established(gw)) =>
        \A i \in DOMAIN gw.calls : gw.calls[i].op # "bt_le_scan_start"

(* ------------------------------------------------------------------ *)
(* C15: the order of clearing and acting in the recovery paths          *)
(* ------------------------------------------------------------------ *)
RecoveryFns == {"error_recovery", "complete_bt_reset"}

\* a recovery path asks the stack to stop the scan or to disconnect
RecoveryAction(r) ==
    r.fn \in RecoveryFns /\ r.op \in {"bt_le_scan_stop", "bt_conn_disconnect"}

\* entry j of the log is the first such request of a recovery path
FirstRecoveryAction(s, j) ==
    /\ RecoveryAction(s.calls[j])
    /\ \E k \in 1..(j - 1) :
          /\ s.calls[k].fn \in RecoveryFns /\ s.calls[k].op = "enter"
          /\ \A m \in (k + 1)..(j - 1) : ~RecoveryAction(s.calls[m])

\* C15 (clear before acting): when error_recovery or complete_bt_reset
\* issues its first bt_le_scan_stop or bt_conn_disconnect, all handle
\* variables, the subscription parameters and the discovery parameters are
\* already zero
C15_ClearedBeforeRecoveryAction ==
    \A j \in DOMAIN sa.calls :
        FirstRecoveryAction(sa, j) => sa.calls[j].clear

(* ------------------------------------------------------------------ *)
(* C16: the connection-attempt counters                                 *)
(* ------------------------------------------------------------------ *)
\* the connected callback ran for a connection that came up
ConnectionSucceeded(s) ==
    \E i \in DOMAIN s.calls :
        s.calls[i].fn = "connected" /\ s.calls[i].op = "bt_le_scan_stop"

\* complete_bt_reset ran to its end
ResetReturned(s) ==
    \E i \in DOMAIN s.calls :
        s.calls[i].fn = "complete_bt_reset" /\ s.calls[i].op = "return"

\* C16 (attempt counters reset): after a successful connection and after a
\* complete_bt_reset, whoever called it, retry_count and total_retry_count
\* are both zero
C16_AttemptCountersReset ==
    (ConnectionSucceeded(sa) \/ ResetReturned(sa)) =>
        (sa.retry_count = 0 /\ sa.total_retry_count = 0)

(* ------------------------------------------------------------------ *)
(* C17: what complete_bt_reset reports                                   *)
(* ------------------------------------------------------------------ *)
\* the stack is up, or it is initialising and will call bt_ready
TransportEnabled(s) == s.bt_on \/ s.ready = "pending"

\* C17 (reset outcome): complete_bt_reset returns 0 only if the stack was
\* enabled again; when bt_enable failed, the caller gets a non-zero value
C17_ResetReportsFailure ==
    (\E i \in DOMAIN sa.calls :
        /\ sa.calls[i].fn = "complete_bt_reset"
        /\ sa.calls[i].op = "return" /\ sa.calls[i].a = "0")
    => TransportEnabled(sa)

(* ------------------------------------------------------------------ *)
(* C18: start_scan when the stack is busy                               *)
(* ------------------------------------------------------------------ *)
\* entries j-n+1..j of the log are n scan starts of one start_scan call
\* that all returned -EAGAIN
BusyRun(s, n, j) ==
    /\ j >= n
    /\ \A m \in (j - n + 1)..j :
          /\ s.calls[m].fn = "start_scan"
          /\ s.calls[m].op = "bt_le_scan_start"
          /\ s.calls[m].a = "EAGAIN"

\* at most n busy scan starts in a row, and after the n-th the recovery
\* logic is entered
RetryThenEscalate(s, n) ==
    \A j \in DOMAIN s.calls :
        /\ ~BusyRun(s, n + 1, j)
        /\ BusyRun(s, n, j) =>
              \E k \in (j + 1)..Len(s.calls) :
                  /\ s.calls[k].op = "enter"
                  /\ s.calls[k].fn \in {"error_recovery", "complete_bt_reset",
                                        "ble_central_reset"}

\* C18 (bounded scan-start retry): start_scan retries a busy scan start at
\* most 5 times (standalone) or 3 times (gateway) and then enters the
\* recovery logic; it does not just return
C18_ScanRetryEscalates ==
    /\ RetryThenEscalate(sa, SCAN_MAX_RETRIES)
    /\ RetryThenEscalate(gw, GW_SCAN_MAX_RETRIES)

(* ------------------------------------------------------------------ *)
(* C19: when the CCC handle may be guessed                              *)
(* ------------------------------------------------------------------ *)
\* the step from s to t asked for a subscription with a CCC handle that no
\* descriptor discovery reported: the callback was not at the CCC stage
GuessedSubscribe(s, t) ==
    /\ s.discover_params.uuid # "CCC"
    /\ \E j \in DOMAIN t.calls : t.calls[j].op = "bt_gatt_subscribe"

\* in the step from s to t the TX characteristic was reported, the CCC
\* descriptor discovery was asked for and failed, and the subscription
\* came after it
CanonicalFailedFirst(s, t) ==
    /\ s.discover_params.uuid = "TX"
    /\ \A j \in DOMAIN t.calls :
          /\ t.calls[j].op # "exhausted"
          /\ t.calls[j].op = "bt_gatt_subscribe" =>
                \E i \in 1..(j - 1) :
                    /\ t.calls[i].op = "bt_gatt_discover"
                    /\ t.calls[i].a # "OK"

\* C19 (guess only after canonical failure): the gateway and the loopback
\* central put a computed CCC handle into a subscribe request only after
\* the CCC descriptor discovery of this connection was tried and failed
C19_GuessOnlyAfterCanonicalFailure ==
    [][/\ GuessedSubscribe(gw, gw') => CanonicalFailedFirst(gw, gw')
       /\ GuessedSubscribe(lb, lb') => CanonicalFailedFirst(lb, lb')]_vars

(* ------------------------------------------------------------------ *)
(* C20: the peer has no CCC descriptor                                  *)
(* ------------------------------------------------------------------ *)
\* C20 (CCC-missing fallback): when the gateway has the service, RX and TX
\* and the CCC descriptor discovery ends without a match on an established
\* connection, with a stack that reports no error, the callback asks for
\* the subscription with a computed CCC handle and ends subscribed
C20_CccMissingFallback ==
    (/\ Called(gw, "exhausted", "CCC")
     /\ Established(gw)
     /\ gw.nus_rx_handle # 0 /\ gw.nus_tx_handle # 0
     /\ ~FailedCall(gw))
    => (/\ \E i \in DOMAIN gw.calls : gw.calls[i].op = "bt_gatt_subscribe"
        /\ gw.sub.conn = gw.current_conn
        /\ gw.subscribe_params.value_handle = gw.nus_tx_handle
        /\ gw.subscribe_params.ccc_handle # 0)

(* ------------------------------------------------------------------ *)
(* C21: handles are used only after their discovery                     *)
(* ------------------------------------------------------------------ *)
\* C21 (no use before discovery): the gateway writes to the RX
\* characteristic only after RX was reported by UUID in the current
\* connection, and subscribes on TX only after TX was reported by UUID in
\* the current connection
C21_NoUseBeforeDiscovery ==
    [][/\ Called(gw', "bt_gatt_write_without_response", "OK") =>
             "RX" \in gw.matched
       /\ (\E i \in DOMAIN gw'.calls : gw'.calls[i].op = "bt_gatt_subscribe")
             => "TX" \in gw'.matched]_vars

(* ------------------------------------------------------------------ *)
(* Properties of the rental logic                                       *)
(* ------------------------------------------------------------------ *)
\* C27 (invalid scan sends nothing): rental_logic_process_scan(NULL, 0)
\* calls ble_send in no rental state
C27_InvalidScanSendsNothing ==
    [][Noted(app', "rental_logic_process_scan", "enter", "invalid") =>
          (Sends(app') = 0 /\ app'.ble_send_count = app.ble_send_count)]_vars

\* an invalid scan arrived while the rental of a scanned item was active
C27_InvalidScanWhileRented ==
    /\ Noted(app, "rental_logic_process_scan", "enter", "invalid")
    /\ app.item_is_rented /\ app.last_item_id = ITEM123

Oversize(msg) ==
    msg.tag_id_len > MAX_TAG_ID_LEN \/ msg.payload_len > MAX_MSG_PAYLOAD

\* C22 (wire-message validation): the gateway rejects a received message
\* whose tag_id_len exceeds 16 or whose payload_len exceeds 128: processing
\* it returns an error, stores nothing and sends nothing to the backend
C22_OversizeRejected ==
    [][(/\ Noted(app', "gateway_service_process_message", "enter", "")
        /\ Oversize(app.current_msg))
       => /\ ~Noted(app', "gateway_service_process_message", "return", "0")
          /\ ~Noted(app', "gateway_service_process_message", "sent", "")
          /\ app'.messages = app.messages]_vars

(* ------------------------------------------------------------------ *)
(* Properties of the centrals, continued                                *)
(* ------------------------------------------------------------------ *)
\* C23 (no blocking in the discovery callback): discover_func of the
\* standalone central executes no k_sleep of its own; the sleeps of a step
\* belong to the recovery and scan-retry functions
C23_NoSleepInDiscoverFunc ==
    [][\A i \in DOMAIN sa'.calls :
          sa'.calls[i].op = "k_sleep" => sa'.calls[i].fn # "discover_func"]_vars

\* C24 (error escalation at the threshold): when service discovery fails
\* to start on GATEWAY_ERROR_RESET_THRESHOLD connections in a row, the
\* error_recovery of the last failure calls ble_central_reset
C24_ResetOnFifthFailure ==
    [][(/\ gw.disc_failures = GATEWAY_ERROR_RESET_THRESHOLD - 1
        /\ gw'.disc_failures = GATEWAY_ERROR_RESET_THRESHOLD)
       => /\ Entered(gw', "error_recovery")
          /\ Entered(gw', "ble_central_reset")]_vars

\* C25 (connection-state query): ble_central_is_connected() of the gateway
\* is true exactly while a connection is established; it is false while an
\* attempt is pending, after a failed attempt and after a termination
C25_IsConnectedIffEstablished ==
    gw.bt_on => (gw_ble_central_is_connected(gw) <=> Established(gw))

\* C26 (scan-start result): ble_central_start_scan and ble_central_reset
\* of the gateway return 0 only when the stack is scanning on return
C26_ZeroMeansScanning ==
    [][\A i \in DOMAIN gw'.calls :
          (/\ gw'.calls[i].fn \in {"ble_central_start_scan", "ble_central_reset"}
           /\ gw'.calls[i].op = "return"
           /\ gw'.calls[i].a = "0")
          => gw'.scan_on /\ gw'.scanning]_vars

\* the central holds no reference to a connection object it no longer
\* tracks
RefsBalanced(s) ==
    \A c \in Conns : c # s.current_conn => s.conn[c].refs = 0

\* C29 (connection reference balance): in each central, the references
\* taken on a connection object (by bt_conn_le_create and by bt_conn_ref in
\* connected) are all released by the time current_conn is cleared
C29_ReferencesReleased ==
    RefsBalanced(sa) /\ RefsBalanced(gw) /\ RefsBalanced(lb)

\* C30 (reconnect after a failed connect): once a connection attempt of
\* the gateway has failed and no connection exists or is pending, a
\* matching advertisement report whose stack calls succeed leads to a new
\* bt_conn_le_create
C30_AdvertisementLeadsToCreate ==
    [][(/\ gw'.adv_left < gw.adv_left
        /\ \A c \in Conns : gw.conn[c].st = "free"
        /\ ~FailedCall(gw'))
       => Called(gw', "bt_conn_le_create", "OK")]_vars

(* ------------------------------------------------------------------ *)
(* Properties of the applications, continued                            *)
(* ------------------------------------------------------------------ *)
\* sequence p is the beginning of sequence q
IsPrefix(p, q) ==
    Len(p) <= Len(q) /\ \A i \in 1..Len(p) : p[i] = q[i]

\* C31 (gateway message hand-off): the messages processed by
\* gateway_service_process_message are the messages passed to
\* ble_message_handler, each once, in order and unchanged; when no message
\* waits for the work item all of them have been processed
C31_EveryMessageProcessedOnce ==
    /\ IsPrefix(app.processed, app.received)
    /\ ~app.message_ready => app.processed = app.received

\* C32 (main device tag buffer exclusion): while nfc_process_work is
\* submitted and has not run, tag_processing is true and the tag buffers
\* keep the tag they were filled with
C32_TagBuffersHeldForWork ==
    [][/\ app'.nfc_work => app'.tag_processing
       /\ (app.nfc_work /\ app'.nfc_work) =>
             /\ app'.tag_id_buf = app.tag_id_buf
             /\ app'.tag_id_len = app.tag_id_len
             /\ app'.tag_data_len = app.tag_data_len]_vars

\* the step changed the status of an entry from o to n along a transition
\* of the rental manager
AllowedTransition(o, n) ==
    LET fn == "rental_manager_process_command"
    IN  \/ /\ o.status = STATUS_AVAILABLE /\ n.status = STATUS_RENTED
           /\ Noted(app', fn, "enter", "START") /\ Noted(app', fn, "return", "0")
        \/ /\ o.status \in {STATUS_RENTED, STATUS_EXPIRED}
           /\ n.status = STATUS_AVAILABLE
           /\ Noted(app', fn, "enter", "END") /\ Noted(app', fn, "return", "0")
        \/ /\ o.status = STATUS_RENTED /\ n.status = STATUS_EXPIRED
           /\ \/ Entered(app', "check_work_handler")
              \/ Entered(app', "rental_manager_check_expirations")
           /\ app.uptime >= o.start_time + o.duration

\* C33 (rental manager state machine): the status of an entry changes only
\* from AVAILABLE to RENTED by CMD_RENTAL_START, from RENTED or EXPIRED to
\* AVAILABLE by CMD_RENTAL_END and from RENTED to EXPIRED by an expiry check
\* at or after start_time + duration; a command rejected with -EINVAL,
\* -ENOENT or -EBUSY leaves the entries unchanged and sends no status
\* update; num_rentals never exceeds MAX_ACTIVE_RENTALS
C33_RentalStateMachine ==
    [][/\ \A i \in 1..app.num_rentals :
             /\ i <= app'.num_rentals
             /\ app'.rentals[i].tag_id = app.rentals[i].tag_id
             /\ app'.rentals[i].tag_id_len = app.rentals[i].tag_id_len
             /\ \/ app'.rentals[i].status = app.rentals[i].status
                \/ AllowedTransition(app.rentals[i], app'.rentals[i])
       /\ (\E rc \in {"EINVAL", "ENOENT", "EBUSY"} :
              Noted(app', "rental_manager_process_command", "return", rc))
            => /\ app'.rentals = app.rentals
               /\ app'.num_rentals = app.num_rentals
               /\ ~Noted(app', "send_status_update", "status_callback", "")
       /\ app'.num_rentals <= RM_MAX_ACTIVE_RENTALS
       /\ Len(app'.rentals) = app'.num_rentals]_vars

\* a CMD_RENTAL_START for an expired entry was rejected with -EBUSY while
\* the table is full
C33_RejectedOnFullTable ==
    /\ app.num_rentals = RM_MAX_ACTIVE_RENTALS
    /\ Noted(app, "rental_manager_process_command", "enter", "START")
    /\ Noted(app, "rental_manager_process_command", "return", "EBUSY")
    /\ \E i \in 1..app.num_rentals : app.rentals[i].status = STATUS_EXPIRED

\* the active rentals of the gateway service
ActiveRentals(a) ==
    {i \in 1..a.rental_count : a.active_rentals[i].active}

\* the step ran function fn, which returned an error
ReturnedError(a, fn) ==
    \E i \in DOMAIN a.calls :
        a.calls[i].fn = fn /\ a.calls[i].op = "return" /\ a.calls[i].a # "0"

\* C34 (start-rental atomicity): when gateway_service_start_rental returns
\* an error, the rental table is as before: no rental was recorded for the
\* item and rental_count was not incremented
C34_FailedStartRecordsNothing ==
    [][ReturnedError(app', "gateway_service_start_rental")
       => /\ app'.active_rentals = app.active_rentals
          /\ app'.rental_count = app.rental_count]_vars

\* C35 (rental slot reuse): gateway_service_start_rental refuses a rental
\* for lack of space in the rental table (-ENOSPC before any message is
\* built) only when MAX_ACTIVE_RENTALS rentals are active: the capacity of
\* an ended rental is available to a later start
C35_NoSpaceOnlyWhenAllActive ==
    [][(/\ Noted(app', "gateway_service_start_rental", "return", "ENOSPC")
        /\ ~Noted(app', "gateway_service_process_message", "enter", ""))
       => Cardinality(ActiveRentals(app)) = GS_MAX_ACTIVE_RENTALS]_vars

\* C36 (backend queue bound): message_count never exceeds
\* BACKEND_SIM_STORAGE_SIZE; with the backend disconnected,
\* gateway_service_process_message on a full queue returns -ENOSPC, leaves
\* the queue as it is and adds one to backend_error_count, and on a queue
\* that is not full it appends the message and returns 0
C36_BackendQueueBound ==
    [][/\ app'.message_count <= BACKEND_SIM_STORAGE_SIZE
       /\ Len(app'.messages) = app'.message_count
       /\ (/\ Noted(app', "gateway_service_process_message", "enter", "")
           /\ ~app.backend_connected)
          => IF app.message_count >= BACKEND_SIM_STORAGE_SIZE
             THEN /\ Noted(app', "gateway_service_process_message",
                           "return", "ENOSPC")
                  /\ app'.messages = app.messages
                  /\ app'.message_count = app.message_count
                  /\ app'.backend_error_count = app.backend_error_count + 1
             ELSE /\ Noted(app', "gateway_service_process_message",
                           "return", "0")
                  /\ app'.message_count = app.message_count + 1
                  /\ SubSeq(app'.messages, 1, app.message_count) = app.messages
                  /\ app'.messages[app'.message_count].cmd
                        = (IF Entered(app', "gateway_service_start_rental")
                           THEN CMD_RENTAL_START ELSE CMD_RENTAL_END)
                  /\ app'.backend_error_count = app.backend_error_count]_vars

\* a message was refused on the full queue after another one had filled it
C36_RefusedOnFullQueue ==
    /\ ~app.backend_connected
    /\ app.message_count = BACKEND_SIM_STORAGE_SIZE
    /\ app.messages[BACKEND_SIM_STORAGE_SIZE].cmd = CMD_RENTAL_START
    /\ Noted(app, "gateway_service_process_message", "return", "ENOSPC")
    /\ app.backend_error_count = 1

(* ------------------------------------------------------------------ *)
(* RentScan_v3 firmware: rental_data.c and storage_manager.c            *)
(* ------------------------------------------------------------------ *)
\* rental_item_t (rental_data.h lines 40-49); a tag id is written as a
\* string and carries its length beside it
Item(item_id, item_name, status, rental_duration, timestamp, tag_id, tag_id_length) ==
    [item_id |-> item_id, item_name |-> item_name, status |-> status,
     rental_duration |-> rental_duration, timestamp |-> timestamp,
     tag_id |-> tag_id, tag_id_length |-> tag_id_length]

\* the flash pages after an erase: no magic number
Erased == [valid |-> FALSE, items |-> <<>>]

\* storage_manager_load_rental_items: <<return code, items>>; without a
\* valid header *p_num_items is set to 0
storage_manager_load_rental_items(a, max_items) ==
    IF ~a.flash.valid
    THEN <<"NRF_ERROR_NOT_FOUND", <<>>>>
    ELSE <<"NRF_SUCCESS",
           SubSeq(a.flash.items, 1, Min(Len(a.flash.items), max_items))>>

\* storage_manager_save_items; every fstorage erase and write succeeds and
\* completes, so m_storage_busy is false again at each return
storage_manager_save_items(a, items) ==
    IF Len(items) = 0 \/ Len(items) > STORAGE_MAX_ITEMS
    THEN Note(a, "storage_manager_save_items", "return",
              "NRF_ERROR_INVALID_PARAM")
    ELSE Note([a EXCEPT !.flash = [valid |-> TRUE, items |-> items]],
              "storage_manager_save_items", "return", "NRF_SUCCESS")

\* storage_manager_save_rental_item
storage_manager_save_rental_item(a, item) ==
    LET ld == storage_manager_load_rental_items(a, STORAGE_MAX_ITEMS)
        items == IF ld[1] = "NRF_SUCCESS" THEN ld[2] ELSE <<>>
        hits == {i \in DOMAIN items : items[i].item_id = item.item_id}
    IN  IF hits # {}
        THEN LET i == CHOOSE i \in hits : \A j \in hits : i <= j
             IN  storage_manager_save_items(a, [items EXCEPT ![i] = item])
        ELSE IF Len(items) < STORAGE_MAX_ITEMS
        THEN storage_manager_save_items(a, Append(items, item))
        ELSE Note(a, "storage_manager_save_rental_item", "return",
                  "NRF_ERROR_NO_MEM")

\* the sequence without its entry i
Without(seq, i) == SubSeq(seq, 1, i - 1) \o SubSeq(seq, i + 1, Len(seq))

\* storage_manager_remove_rental_item
storage_manager_remove_rental_item(a, item_id) ==
    LET ld == storage_manager_load_rental_items(a, STORAGE_MAX_ITEMS)
        items == ld[2]
        hits == {i \in DOMAIN items : items[i].item_id = item_id}
    IN  IF ld[1] # "NRF_SUCCESS"
        THEN Note(a, "storage_manager_remove_rental_item", "return", ld[1])
        ELSE IF hits = {}
        THEN Note(a, "storage_manager_remove_rental_item", "return",
                  "NRF_ERROR_NOT_FOUND")
        ELSE LET i == CHOOSE i \in hits : \A j \in hits : i <= j
             IN  storage_manager_save_items(a, Without(items, i))

\* the three example items of rental_data_init
ExampleItems ==
    <<Item(1001, "Drill Kit", RENTAL_STATUS_AVAILABLE, 24, 0, "G1", 7),
      Item(1002, "Ladder", RENTAL_STATUS_AVAILABLE, 72, 0, "G2", 7),
      Item(1003, "Power Washer", RENTAL_STATUS_MAINTENANCE, 48, 0, "G3", 7)>>

\* rental_data_init: the load overwrites the first entries of the database
\* and the count, also when it finds no valid data
rental_data_init(a) ==
    LET ld == storage_manager_load_rental_items(a, MAX_RENTAL_ITEMS)
    IN  [Note(a, "rental_data_init", "enter", "") EXCEPT
            !.m_rental_database = ld[2],
            !.m_num_items = Len(ld[2]),
            !.m_current_time = EXAMPLE_TIME]

\* rental_data_update_time
rental_data_update_time(a, timestamp) ==
    [Note(a, "rental_data_update_time", "enter", "") EXCEPT
        !.m_current_time = timestamp]

\* find_item_by_tag_id: the index found, 0 for not found
find_item_by_tag_id(a, tag_id, tag_id_length) ==
    LET hits == {i \in 1..a.m_num_items :
                    /\ a.m_rental_database[i].tag_id_length = tag_id_length
                    /\ a.m_rental_database[i].tag_id = tag_id}
    IN  IF tag_id_length = 0 \/ hits = {} THEN 0
        ELSE CHOOSE i \in hits : \A j \in hits : i <= j

\* find_item_by_item_id: the index found, 0 for not found
find_item_by_item_id(a, item_id) ==
    LET hits == {i \in 1..a.m_num_items :
                    a.m_rental_database[i].item_id = item_id}
    IN  IF hits = {} THEN 0
        ELSE CHOOSE i \in hits : \A j \in hits : i <= j

\* the lookup shared by checkout, checkin and status: by tag id first, then
\* by item id
lookup(a, p_item) ==
    LET by_tag == IF p_item.tag_id_length > 0
                  THEN find_item_by_tag_id(a, p_item.tag_id,
                                           p_item.tag_id_length)
                  ELSE 0
    IN  IF by_tag = 0 /\ p_item.item_id # 0
        THEN find_item_by_item_id(a, p_item.item_id)
        ELSE by_tag

\* rental_data_process_checkout renting the item whatever its status
rental_data_process_checkout_FromAnyStatus(a, p_item) ==
    LET a0 == Note(a, "rental_data_process_checkout", "enter", "")
        index == lookup(a0, p_item)
    IN  IF index = 0
        THEN Note(a0, "rental_data_process_checkout", "return", "false")
        ELSE LET a1 == [a0 EXCEPT
                         !.m_rental_database[index].status =
                             RENTAL_STATUS_RENTED,
                         !.m_rental_database[index].timestamp =
                             a0.m_current_time]
             IN  Note(storage_manager_save_rental_item(
                          a1, a1.m_rental_database[index]),
                      "rental_data_process_checkout", "return", "true")

\* rental_data_process_checkout
rental_data_process_checkout(a, p_item) ==
    LET a0 == Note(a, "rental_data_process_checkout", "enter", "")
        index == lookup(a0, p_item)
    IN  IF index = 0
        THEN Note(a0, "rental_data_process_checkout", "return", "false")
        ELSE IF a0.m_rental_database[index].status # RENTAL_STATUS_AVAILABLE
        THEN Note(a0, "rental_data_process_checkout", "return", "false")
        ELSE LET a1 == [a0 EXCEPT
                         !.m_rental_database[index].status =
                             RENTAL_STATUS_RENTED,
                         !.m_rental_database[index].timestamp =
                             a0.m_current_time]
             IN  Note(storage_manager_save_rental_item(
                          a1, a1.m_rental_database[index]),
                      "rental_data_process_checkout", "return", "true")

\* rental_data_process_checkin
rental_data_process_checkin(a, p_item) ==
    LET a0 == Note(a, "rental_data_process_checkin", "enter", "")
        index == lookup(a0, p_item)
    IN  IF index = 0
        THEN Note(a0, "rental_data_process_checkin", "return", "false")
        ELSE IF a0.m_rental_database[index].status # RENTAL_STATUS_RENTED
        THEN Note(a0, "rental_data_process_checkin", "return", "false")
        ELSE LET a1 == [a0 EXCEPT
                         !.m_rental_database[index].status =
                             RENTAL_STATUS_AVAILABLE,
                         !.m_rental_database[index].timestamp = 0]
             IN  Note(storage_manager_save_rental_item(
                          a1, a1.m_rental_database[index]),
                      "rental_data_process_checkin", "return", "true")

\* rental_data_add_item
rental_data_add_item(a, p_item) ==
    LET a0 == Note(a, "rental_data_add_item", "enter", "")
    IN  IF \/ a0.m_num_items >= MAX_RENTAL_ITEMS
           \/ /\ p_item.tag_id_length > 0
              /\ find_item_by_tag_id(a0, p_item.tag_id,
                                     p_item.tag_id_length) # 0
           \/ /\ p_item.item_id # 0
              /\ find_item_by_item_id(a0, p_item.item_id) # 0
        THEN Note(a0, "rental_data_add_item", "return", "false")
        ELSE Note(storage_manager_save_rental_item(
                      [a0 EXCEPT
                          !.m_rental_database =
                              Append(a0.m_rental_database, p_item),
                          !.m_num_items = @ + 1],
                      p_item),
                  "rental_data_add_item", "return", "true")

\* rental_data_remove_item
rental_data_remove_item(a, item_id) ==
    LET a0 == Note(a, "rental_data_remove_item", "enter", ToString(item_id))
        index == find_item_by_item_id(a0, item_id)
    IN  IF index = 0
        THEN Note(a0, "rental_data_remove_item", "return", "false")
        ELSE Note(storage_manager_remove_rental_item(
                      [a0 EXCEPT
                          !.m_rental_database =
                              Without(a0.m_rental_database, index),
                          !.m_num_items = @ - 1],
                      item_id),
                  "rental_data_remove_item", "return", "true")

\* the items the runs pass to checkout and checkin: by tag id, by a tag id
\* the database does not hold together with an item id, by item id alone,
\* and with neither
Requests ==
    {Item(0, "", RENTAL_STATUS_AVAILABLE, 0, 0, "G1", 7),
     Item(1001, "", RENTAL_STATUS_AVAILABLE, 0, 0, "G9", 7),
     Item(1002, "", RENTAL_STATUS_AVAILABLE, 0, 0, "", 0),
     Item(1003, "", RENTAL_STATUS_AVAILABLE, 0, 0, "", 0),
     Item(0, "", RENTAL_STATUS_AVAILABLE, 0, 0, "", 0)}

\* the items the runs add, and the ids they remove
NewItems ==
    {ExampleItems[1], ExampleItems[2], ExampleItems[3],
     Item(0, "Spare", RENTAL_STATUS_AVAILABLE, 24, 0, "G4", 7)}
RemoveIds == {0, 1001, 1002}
Times == {0, EXAMPLE_TIME + 1}

\* a tag or an item id is presented for checkout (main.c lines 375, 463)
RdCheckout ==
    /\ app.calls_left > 0
    /\ \E p_item \in Requests :
          app' = rental_data_process_checkout(
                    [AppBegin(app) EXCEPT !.calls_left = @ - 1], p_item)
    /\ UNCHANGED <<sa, mainf, gw, lb>>

\* a tag or an item id is presented for checkin (main.c lines 387, 468)
RdCheckin ==
    /\ app.calls_left > 0
    /\ \E p_item \in Requests :
          app' = rental_data_process_checkin(
                    [AppBegin(app) EXCEPT !.calls_left = @ - 1], p_item)
    /\ UNCHANGED <<sa, mainf, gw, lb>>

RdAddItem ==
    /\ app.calls_left > 0
    /\ \E p_item \in NewItems :
          app' = rental_data_add_item(
                    [AppBegin(app) EXCEPT !.calls_left = @ - 1], p_item)
    /\ UNCHANGED <<sa, mainf, gw, lb>>

RdRemoveItem ==
    /\ app.calls_left > 0
    /\ \E item_id \in RemoveIds :
          app' = rental_data_remove_item(
                    [AppBegin(app) EXCEPT !.calls_left = @ - 1], item_id)
    /\ UNCHANGED <<sa, mainf, gw, lb>>

RdUpdateTime ==
    /\ app.calls_left > 0
    /\ \E timestamp \in Times :
          app' = rental_data_update_time(
                    [AppBegin(app) EXCEPT !.calls_left = @ - 1], timestamp)
    /\ UNCHANGED <<sa, mainf, gw, lb>>

\* the device restarts and rental_data_init loads the database again
RdRestart ==
    /\ app.calls_left > 0
    /\ app' = rental_data_init([AppBegin(app) EXCEPT !.calls_left = @ - 1])
    /\ UNCHANGED <<sa, mainf, gw, lb>>

\* the flash at the first start: erased, or holding what an earlier run
\* saved
StoredBefore ==
    {Erased,
     [valid |-> TRUE, items |-> <<ExampleItems[1]>>],
     [valid |-> TRUE, items |-> <<ExampleItems[1], ExampleItems[2]>>]}

InitRentalData ==
    /\ \E f \in StoredBefore :
          app = [rental_data_init([AppInit EXCEPT !.flash = f]) EXCEPT
                    !.calls = <<>>, !.calls_left = RdCalls]
    /\ sa = SaOff
    /\ mainf = MainOff
    /\ gw = GwOff
    /\ lb = LbOff

NextRentalData ==
    \/ RdCheckout
    \/ RdCheckin
    \/ RdAddItem
    \/ RdRemoveItem
    \/ RdUpdateTime
    \/ RdRestart

SpecRentalData == InitRentalData /\ [][NextRentalData]_vars

\* the items the storage holds: those behind a valid header
StoredItems(a) == IF a.flash.valid THEN a.flash.items ELSE <<>>

\* C37: rental_data_process_checkout returns true only for a database item
\* whose status is AVAILABLE, and then that item, and nothing else, has
\* become RENTED with the current time as its timestamp;
\* rental_data_process_checkin returns true only for an item whose status is
\* RENTED, and then that item, and nothing else, has become AVAILABLE with
\* timestamp 0; a call of either that returns false leaves the database and
\* its item count as they were.
C37_CheckoutCheckinStateMachine ==
    [][/\ Entered(app', "rental_data_process_checkout") =>
            IF Noted(app', "rental_data_process_checkout", "return", "true")
            THEN \E i \in 1..app.m_num_items :
                    /\ app.m_rental_database[i].status =
                           RENTAL_STATUS_AVAILABLE
                    /\ app'.m_num_items = app.m_num_items
                    /\ app'.m_rental_database =
                          [app.m_rental_database EXCEPT
                              ![i].status = RENTAL_STATUS_RENTED,
                              ![i].timestamp = app.m_current_time]
            ELSE /\ app'.m_rental_database = app.m_rental_database
                 /\ app'.m_num_items = app.m_num_items
       /\ Entered(app', "rental_data_process_checkin") =>
            IF Noted(app', "rental_data_process_checkin", "return", "true")
            THEN \E i \in 1..app.m_num_items :
                    /\ app.m_rental_database[i].status = RENTAL_STATUS_RENTED
                    /\ app'.m_num_items = app.m_num_items
                    /\ app'.m_rental_database =
                          [app.m_rental_database EXCEPT
                              ![i].status = RENTAL_STATUS_AVAILABLE,
                              ![i].timestamp = 0]
            ELSE /\ app'.m_rental_database = app.m_rental_database
                 /\ app'.m_num_items = app.m_num_items]_vars

\* a checkin has just returned true while another item is still rented out
\* with a checkout timestamp
C37_CheckedInAfterCheckout ==
    /\ Noted(app, "rental_data_process_checkin", "return", "true")
    /\ \E i \in 1..app.m_num_items :
          /\ app.m_rental_database[i].status = RENTAL_STATUS_AVAILABLE
          /\ app.m_rental_database[i].timestamp = 0
    /\ \E i \in 1..app.m_num_items :
          /\ app.m_rental_database[i].status = RENTAL_STATUS_RENTED
          /\ app.m_rental_database[i].timestamp = app.m_current_time

\* C38: when rental_data_remove_item(id) has returned true, no item of the
\* database and no stored item has that id, and the stored items are those
\* stored before without the ones of that id.
C38_RemovalIsPersistent ==
    [][\A id \in RemoveIds :
          (/\ Noted(app', "rental_data_remove_item", "enter", ToString(id))
           /\ Noted(app', "rental_data_remove_item", "return", "true"))
          => /\ \A i \in 1..app'.m_num_items :
                   app'.m_rental_database[i].item_id # id
             /\ \A i \in DOMAIN StoredItems(app') :
                   StoredItems(app')[i].item_id # id
             /\ StoredItems(app') =
                   SelectSeq(StoredItems(app),
                             LAMBDA it : it.item_id # id)]_vars

====
